---- MODULE Spec2Model ----
(***************************************************************************)
(* Bite Me Buddy: the relational state of the food-ordering application    *)
(* (users, services, menu_items, orders, order_items, user_sessions), the  *)
(* signed access tokens in circulation, the clock, and the request         *)
(* handlers of the routers together with the data-access functions they    *)
(* call.  Money is kept in whole currency units, instants in whole minutes.*)
(* Columns no handler branches on (names, addresses, notes, image urls,    *)
(* created_at) are left out of the rows.                                   *)
(***************************************************************************)
EXTENDS Integers, Sequences, FiniteSets, TLC

VARIABLES
    users,          \* users table: id -> row
    services,       \* services table: set of ids
    menu_items,     \* menu_items table: id -> row
    orders,         \* orders table: id -> row
    order_items,    \* order_items table: id -> row
    user_sessions,  \* user_sessions table: id -> row
    next_id,        \* the serial primary-key counters, one per table
    tokens,         \* access tokens issued so far (the signed JWT payloads)
    now,            \* datetime.utcnow(), in minutes
    reqs,           \* team-member requests in flight: slot -> request record
    resp            \* response of the handler that completed last

vars == <<users, services, menu_items, orders, order_items, user_sessions,
          next_id, tokens, now, reqs, resp>>

db == <<users, services, menu_items, orders, order_items, user_sessions, next_id>>

----------------------------------------------------------------------------
(* Bounds of the model *)

MaxUsers == 2
MaxServices == 1
MaxMenuItems == 2
MaxOrders == 2
MaxLines == 2
MaxQuantity == 2
MaxPrice == 2
MaxTime == 6
MaxSessions == 2
MaxAccounts == 3
MaxInFlight == 1

----------------------------------------------------------------------------
(* Program constants and enumerations *)

NULL == -1
NoOtp == "None"

CUSTOMER == "customer"
TEAM_MEMBER == "team_member"
ADMIN == "admin"
UserRole == {CUSTOMER, TEAM_MEMBER, ADMIN}

PENDING == "pending"
ASSIGNED == "assigned"
OUT_FOR_DELIVERY == "out_for_delivery"
DELIVERED == "delivered"
CANCELLED == "cancelled"
OrderStatus == {PENDING, ASSIGNED, OUT_FOR_DELIVERY, DELIVERED, CANCELLED}

ACCESS_TOKEN_EXPIRE_MINUTES == 30
OTP_EXPIRE_MINUTES == 5

SECRET_KEY == "your-secret-key-change-in-production"
ADMIN_USERNAME == "admin"
ADMIN_PASSWORD == "Admin@123"
ADMIN_EMAIL == "admin@bitemebuddy.com"
ADMIN_PHONE == "+919876543210"

----------------------------------------------------------------------------
(* Helpers *)

\* f without the rows whose key is in gone
Without(f, gone) == [k \in (DOMAIN f) \ gone |-> f[k]]

\* f with one more row
Insert(f, k, row) == [j \in (DOMAIN f) \cup {k} |-> IF j = k THEN row ELSE f[j]]

RECURSIVE SumOver(_, _)
SumOver(S, val) ==
    IF S = {} THEN 0
    ELSE LET x == CHOOSE y \in S : TRUE
         IN  val[x] + SumOver(S \ {x}, val)

\* The rows of order_items that belong to order o, in table tbl
ItemsOf(tbl, o) == {i \in DOMAIN tbl : tbl[i].order_id = o}

\* sum of price_at_time * quantity over the persisted lines of order o
LinesTotal(tbl, o) ==
    SumOver(ItemsOf(tbl, o), [i \in DOMAIN tbl |-> tbl[i].price_at_time * tbl[i].quantity])

\* Every handler ends in exactly one response
Respond(op, status) == resp' = [op |-> op, status |-> status, detail |-> ""]

\* A response whose body tells more than its status code
RespondWith(op, status, detail) == resp' = [op |-> op, status |-> status, detail |-> detail]

----------------------------------------------------------------------------
(* core/security.py *)

get_password_hash(password) == <<"bcrypt", password>>

verify_password(plain_password, hashed_password) ==
    hashed_password = get_password_hash(plain_password)

create_access_token(data) ==
    [sub |-> data.sub, user_id |-> data.user_id, role |-> data.role,
     exp |-> now + ACCESS_TOKEN_EXPIRE_MINUTES, key |-> SECRET_KEY]

NoToken == [sub |-> "", user_id |-> NULL, role |-> "", exp |-> NULL, key |-> ""]

\* A get_current_user that also wants a login session of the user to be open
get_current_user_SessionBound(token, allowed_roles) ==
    IF token = NoToken THEN 401
    ELSE IF token.key # SECRET_KEY \/ token.exp < now THEN 401
    ELSE IF token.sub = "" \/ token.user_id = NULL \/ token.role = "" THEN 401
    ELSE IF token.user_id \notin DOMAIN users THEN 401
    ELSE IF ~\E k \in DOMAIN user_sessions :
                /\ user_sessions[k].user_id = token.user_id
                /\ user_sessions[k].logout_time = NULL
    THEN 401
    ELSE IF allowed_roles # {} /\ token.role \notin allowed_roles THEN 403
    ELSE 200

\* A get_current_user that trusts the token and never looks the user up
get_current_user_NoLookup(token, allowed_roles) ==
    IF token = NoToken THEN 401
    ELSE IF token.key # SECRET_KEY \/ token.exp < now THEN 401
    ELSE IF token.sub = "" \/ token.user_id = NULL \/ token.role = "" THEN 401
    ELSE IF allowed_roles # {} /\ token.role \notin allowed_roles THEN 403
    ELSE 200

\* get_current_user(allowed_roles): the status it raises, or 200 with the payload.
\* jwt.decode raises JWTError for a signature made with another key and for exp < now
get_current_user(token, allowed_roles) ==
    IF token = NoToken THEN 401
    ELSE IF token.key # SECRET_KEY \/ token.exp < now THEN 401
    ELSE IF token.sub = "" \/ token.user_id = NULL \/ token.role = "" THEN 401
    ELSE IF token.user_id \notin DOMAIN users THEN 401
    ELSE IF allowed_roles # {} /\ token.role \notin allowed_roles THEN 403
    ELSE 200

\* The callers a protected endpoint lets through
Callers(allowed_roles) == {t \in tokens : get_current_user(t, allowed_roles) = 200}

----------------------------------------------------------------------------
(* Row constructors *)

UserRow(username, email, phone, password, role) ==
    [username |-> username, email |-> email, phone |-> phone,
     hashed_password |-> get_password_hash(password), role |-> role]

MenuItemRow(service_id, price) == [service_id |-> service_id, price |-> price]

OrderRow(customer_id, service_id, total_amount) ==
    [customer_id |-> customer_id, service_id |-> service_id,
     total_amount |-> total_amount, assigned_to |-> NULL, status |-> PENDING,
     otp |-> NoOtp, otp_expiry |-> NULL, delivery_confirmed_at |-> NULL]

SessionRow(user_id) == [user_id |-> user_id, login_time |-> now, logout_time |-> NULL]

Bump(table) == [next_id EXCEPT ![table] = @ + 1]

----------------------------------------------------------------------------
(* State after the initial migration: empty tables and the default admin *)

\* A free request slot, and the response before any request completed
Idle == [op |-> "idle", pc |-> "idle", user_id |-> NULL, order_id |-> NULL, otp |-> NoOtp]
NoResponse == [op |-> "none", status |-> 0, detail |-> ""]

Init ==
    /\ users = (1 :> UserRow(ADMIN_USERNAME, ADMIN_EMAIL, ADMIN_PHONE, ADMIN_PASSWORD, ADMIN))
    /\ services = {}
    /\ menu_items = <<>>
    /\ orders = <<>>
    /\ order_items = <<>>
    /\ user_sessions = <<>>
    /\ next_id = [users |-> 2, services |-> 1, menu_items |-> 1, orders |-> 1,
                  order_items |-> 1, user_sessions |-> 1]
    /\ tokens = {}
    /\ now = 0
    /\ reqs = [s \in 1..MaxInFlight |-> Idle]
    /\ resp = NoResponse

----------------------------------------------------------------------------
(* Foreign keys of the schema: what a DELETE takes with it *)

\* order_items rows removed when the given menu items and orders go (ON DELETE CASCADE)
ItemsCascade(gone_menu_items, gone_orders) ==
    {i \in DOMAIN order_items : \/ order_items[i].menu_item_id \in gone_menu_items
                                \/ order_items[i].order_id \in gone_orders}

\* order_items.menu_item_id without ON DELETE CASCADE and without a constraint
MenuItemCRUD_delete_NoCascade(menu_item_id) ==
    /\ menu_items' = Without(menu_items, {menu_item_id})
    /\ UNCHANGED <<users, services, orders, order_items, user_sessions, next_id>>

\* DELETE FROM menu_items WHERE id = menu_item_id
MenuItemCRUD_delete(menu_item_id) ==
    /\ menu_items' = Without(menu_items, {menu_item_id})
    /\ order_items' = Without(order_items, ItemsCascade({menu_item_id}, {}))
    /\ UNCHANGED <<users, services, orders, user_sessions, next_id>>

\* A services table whose rows nothing refers to with ON DELETE CASCADE
ServiceCRUD_delete_NoCascade(service_id) ==
    /\ services' = services \ {service_id}
    /\ UNCHANGED <<users, menu_items, orders, order_items, user_sessions, next_id>>

\* DELETE FROM services WHERE id = service_id
ServiceCRUD_delete(service_id) ==
    LET gone_menu_items == {m \in DOMAIN menu_items : menu_items[m].service_id = service_id}
        gone_orders == {o \in DOMAIN orders : orders[o].service_id = service_id}
    IN  /\ services' = services \ {service_id}
        /\ menu_items' = Without(menu_items, gone_menu_items)
        /\ orders' = Without(orders, gone_orders)
        /\ order_items' = Without(order_items, ItemsCascade(gone_menu_items, gone_orders))
        /\ UNCHANGED <<users, user_sessions, next_id>>

\* A delete that leaves the login history of the user behind
UserCRUD_delete_KeepsSessions(user_id) ==
    LET gone_orders == {o \in DOMAIN orders : orders[o].customer_id = user_id}
        kept == (DOMAIN orders) \ gone_orders
    IN  /\ users' = Without(users, {user_id})
        /\ orders' = [o \in kept |->
                        IF orders[o].assigned_to = user_id
                        THEN [orders[o] EXCEPT !.assigned_to = NULL]
                        ELSE orders[o]]
        /\ order_items' = Without(order_items, ItemsCascade({}, gone_orders))
        /\ UNCHANGED <<services, menu_items, user_sessions, next_id>>

\* orders.assigned_to declared ON DELETE CASCADE instead of SET NULL
UserCRUD_delete_Cascading(user_id) ==
    LET gone_orders == {o \in DOMAIN orders : \/ orders[o].customer_id = user_id
                                              \/ orders[o].assigned_to = user_id}
    IN  /\ users' = Without(users, {user_id})
        /\ orders' = Without(orders, gone_orders)
        /\ order_items' = Without(order_items, ItemsCascade({}, gone_orders))
        /\ user_sessions' = Without(user_sessions,
                                    {s \in DOMAIN user_sessions : user_sessions[s].user_id = user_id})
        /\ UNCHANGED <<services, menu_items, next_id>>

\* DELETE FROM users WHERE id = user_id
UserCRUD_delete(user_id) ==
    LET gone_orders == {o \in DOMAIN orders : orders[o].customer_id = user_id}
        kept == (DOMAIN orders) \ gone_orders
    IN  /\ users' = Without(users, {user_id})
        /\ orders' = [o \in kept |->
                        IF orders[o].assigned_to = user_id
                        THEN [orders[o] EXCEPT !.assigned_to = NULL]
                        ELSE orders[o]]
        /\ order_items' = Without(order_items, ItemsCascade({}, gone_orders))
        /\ user_sessions' = Without(user_sessions,
                                    {s \in DOMAIN user_sessions : user_sessions[s].user_id = user_id})
        /\ UNCHANGED <<services, menu_items, next_id>>

----------------------------------------------------------------------------
(* crud/crud_user.py, crud/crud_user_session.py *)

get_by_username(username) == {u \in DOMAIN users : users[u].username = username}
get_by_email(email) == {u \in DOMAIN users : users[u].email = email}
get_by_phone(phone) == {u \in DOMAIN users : users[u].phone = phone}

\* A users table whose columns carry no unique index
UniqueOk_NoIndex(username, email, phone) == TRUE

\* The unique indexes on users let the INSERT through
UniqueOk(username, email, phone) ==
    /\ get_by_username(username) = {}
    /\ get_by_email(email) = {}
    /\ get_by_phone(phone) = {}

\* UserCRUD.authenticate: the user id, or NULL
authenticate(username, password) ==
    LET found == get_by_username(username)
    IN  IF found = {} THEN NULL
        ELSE LET u == CHOOSE x \in found : TRUE
             IN  IF ~verify_password(password, users[u].hashed_password) THEN NULL
                 ELSE u

\* UserSessionCRUD.create_login followed by create_access_token and the cookies
OpenSession(user_id, row) ==
    /\ user_sessions' = Insert(user_sessions, next_id.user_sessions, SessionRow(user_id))
    /\ tokens' = tokens \cup {create_access_token(
                     [sub |-> row.username, user_id |-> user_id, role |-> row.role])}

----------------------------------------------------------------------------
(* routers/auth.py *)

\* A registration that leaves the email to the database
register_NoEmailCheck(username, email, phone, password, confirm_password) ==
    /\ IF password # confirm_password
       THEN /\ RespondWith("register", 400, "Passwords do not match")
            /\ UNCHANGED <<db, tokens>>
       ELSE IF get_by_username(username) # {}
       THEN /\ RespondWith("register", 400, "Username already exists")
            /\ UNCHANGED <<db, tokens>>
       ELSE IF ~UniqueOk(username, email, phone)
       THEN /\ Respond("register", 500)
            /\ UNCHANGED <<db, tokens>>
       ELSE LET row == UserRow(username, email, phone, password, CUSTOMER)
            IN  /\ next_id.users <= MaxUsers
                /\ next_id.user_sessions <= MaxSessions
                /\ users' = Insert(users, next_id.users, row)
                /\ OpenSession(next_id.users, row)
                /\ next_id' = [next_id EXCEPT !.users = @ + 1, !.user_sessions = @ + 1]
                /\ Respond("register", 302)
                /\ UNCHANGED <<services, menu_items, orders, order_items>>
    /\ UNCHANGED <<now, reqs>>

\* POST /auth/register
register(username, email, phone, password, confirm_password) ==
    /\ IF password # confirm_password
       THEN /\ RespondWith("register", 400, "Passwords do not match")
            /\ UNCHANGED <<db, tokens>>
       ELSE IF get_by_username(username) # {}
       THEN /\ RespondWith("register", 400, "Username already exists")
            /\ UNCHANGED <<db, tokens>>
       ELSE IF get_by_email(email) # {}
       THEN /\ RespondWith("register", 400, "Email already registered")
            /\ UNCHANGED <<db, tokens>>
       ELSE IF ~UniqueOk(username, email, phone)
       THEN \* the INSERT violates a unique index: caught, "Registration failed"
            /\ Respond("register", 500)
            /\ UNCHANGED <<db, tokens>>
       ELSE LET row == UserRow(username, email, phone, password, CUSTOMER)
            IN  /\ next_id.users <= MaxUsers
                /\ next_id.user_sessions <= MaxSessions
                /\ users' = Insert(users, next_id.users, row)
                /\ OpenSession(next_id.users, row)
                /\ next_id' = [next_id EXCEPT !.users = @ + 1, !.user_sessions = @ + 1]
                /\ Respond("register", 302)
                /\ UNCHANGED <<services, menu_items, orders, order_items>>
    /\ UNCHANGED <<now, reqs>>

\* A login that never compares the selected role with the account's
login_NoRoleCheck(username, password, role) ==
    /\ LET db_user == authenticate(username, password)
       IN  IF db_user = NULL
           THEN /\ Respond("login", 401)
                /\ UNCHANGED <<db, tokens>>
           ELSE /\ next_id.user_sessions <= MaxSessions
                /\ OpenSession(db_user, users[db_user])
                /\ next_id' = Bump("user_sessions")
                /\ Respond("login", 302)
                /\ UNCHANGED <<users, services, menu_items, orders, order_items>>
    /\ UNCHANGED <<now, reqs>>

\* POST /auth/login
login(username, password, role) ==
    /\ LET db_user == authenticate(username, password)
       IN  IF db_user = NULL
           THEN /\ Respond("login", 401)
                /\ UNCHANGED <<db, tokens>>
           ELSE IF users[db_user].role # role
           THEN /\ Respond("login", 403)
                /\ UNCHANGED <<db, tokens>>
           ELSE /\ next_id.user_sessions <= MaxSessions
                /\ OpenSession(db_user, users[db_user])
                /\ next_id' = Bump("user_sessions")
                /\ Respond("login", 302)
                /\ UNCHANGED <<users, services, menu_items, orders, order_items>>
    /\ UNCHANGED <<now, reqs>>

\* GET /auth/logout: UserSessionCRUD.update_logout on the session the cookie names;
\* the cookies are deleted at the client, the token itself stays valid until exp
logout(session_id) ==
    /\ user_sessions' = [k \in DOMAIN user_sessions |->
                            IF k = session_id
                            THEN [user_sessions[k] EXCEPT !.logout_time = now]
                            ELSE user_sessions[k]]
    /\ Respond("logout", 302)
    /\ UNCHANGED <<users, services, menu_items, orders, order_items, next_id,
                   tokens, now, reqs>>

\* POST /auth/admin-login
admin_login(username, password) ==
    /\ next_id.user_sessions <= MaxSessions
    /\ LET db_user == authenticate(username, password)
       IN  IF db_user = NULL
           THEN /\ Respond("admin_login", 401)
                /\ UNCHANGED <<db, tokens>>
           ELSE IF users[db_user].role # ADMIN
           THEN /\ Respond("admin_login", 403)
                /\ UNCHANGED <<db, tokens>>
           ELSE /\ OpenSession(db_user, users[db_user])
                /\ next_id' = Bump("user_sessions")
                /\ Respond("admin_login", 302)
                /\ UNCHANGED <<users, services, menu_items, orders, order_items>>
    /\ UNCHANGED <<now, reqs>>

----------------------------------------------------------------------------
(* crud/crud_order.py: OrderCRUD.create *)

\* menu_items = {row.id: row.price for row in result}; menu_items.get(id)
PriceOf(menu_item_id) ==
    IF menu_item_id \in DOMAIN menu_items THEN menu_items[menu_item_id].price ELSE 0

\* A loop that stops at the first menu item it does not find
RECURSIVE KeptLines_UntilMissing(_)
KeptLines_UntilMissing(items) ==
    IF items = <<>> THEN <<>>
    ELSE LET item == Head(items)
             price == PriceOf(item.menu_item_id)
         IN  IF price # 0
             THEN <<[menu_item_id |-> item.menu_item_id, quantity |-> item.quantity,
                     price_at_time |-> price]>> \o KeptLines_UntilMissing(Tail(items))
             ELSE <<>>

\* The loop over order_data.items: the lines kept, each with its price snapshot
RECURSIVE KeptLines(_)
KeptLines(items) ==
    IF items = <<>> THEN <<>>
    ELSE LET item == Head(items)
             price == PriceOf(item.menu_item_id)
         IN  IF price # 0
             THEN <<[menu_item_id |-> item.menu_item_id, quantity |-> item.quantity,
                     price_at_time |-> price]>> \o KeptLines(Tail(items))
             ELSE KeptLines(Tail(items))

\* A total that forgets the quantity of each line
RECURSIVE TotalAmount_NoQuantity(_)
TotalAmount_NoQuantity(items) ==
    IF items = <<>> THEN 0
    ELSE PriceOf(Head(items).menu_item_id) + TotalAmount_NoQuantity(Tail(items))

\* The loop over order_data.items: total_amount += price * item.quantity
RECURSIVE TotalAmount(_)
TotalAmount(items) ==
    IF items = <<>> THEN 0
    ELSE LET item == Head(items)
             price == PriceOf(item.menu_item_id)
         IN  (IF price # 0 THEN price * item.quantity ELSE 0) + TotalAmount(Tail(items))

OrderCRUD_create(customer_id, service_id, items) ==
    LET lines == KeptLines(items)
        oid == next_id.orders
        first == next_id.order_items
        new_ids == first .. (first + Len(lines) - 1)
    IN  /\ orders' = Insert(orders, oid, OrderRow(customer_id, service_id, TotalAmount(items)))
        /\ order_items' = [i \in (DOMAIN order_items) \cup new_ids |->
                             IF i \in new_ids
                             THEN [order_id |-> oid,
                                   menu_item_id |-> lines[i - first + 1].menu_item_id,
                                   quantity |-> lines[i - first + 1].quantity,
                                   price_at_time |-> lines[i - first + 1].price_at_time]
                             ELSE order_items[i]]
        /\ next_id' = [next_id EXCEPT !.orders = @ + 1, !.order_items = @ + Len(lines)]
        /\ UNCHANGED <<users, services, menu_items, user_sessions>>

----------------------------------------------------------------------------
(* routers/routers_customer.py *)

\* The carts a customer can submit: lines of (menu item, quantity > 0)
ItemIds == 1..MaxMenuItems
Line == [menu_item_id : ItemIds, quantity : 1..MaxQuantity]
Carts == UNION {[1..n -> Line] : n \in 0..MaxLines}

\* POST /customer/place-order
place_order(token, service_id, items) ==
    /\ next_id.orders <= MaxOrders
    /\ LET auth == get_current_user(token, {CUSTOMER})
       IN  IF auth # 200
           THEN /\ Respond("place_order", auth)
                /\ UNCHANGED db
           ELSE IF service_id \notin services
           THEN \* orders.service_id references services.id: the flush fails
                /\ Respond("place_order", 500)
                /\ UNCHANGED db
           ELSE /\ OrderCRUD_create(token.user_id, service_id, items)
                /\ Respond("place_order", 303)
    /\ UNCHANGED <<tokens, now, reqs>>

----------------------------------------------------------------------------
(* crud/crud_menu_item.py, crud/crud_order.py: the UPDATE statements *)

\* A price update that also re-prices the lines already ordered
MenuItemCRUD_update_Repricing(menu_item_id, price) ==
    /\ menu_items' = [m \in DOMAIN menu_items |->
                        IF m = menu_item_id THEN [menu_items[m] EXCEPT !.price = price]
                        ELSE menu_items[m]]
    /\ order_items' = [i \in DOMAIN order_items |->
                         IF order_items[i].menu_item_id = menu_item_id
                         THEN [order_items[i] EXCEPT !.price_at_time = price]
                         ELSE order_items[i]]
    /\ UNCHANGED <<users, services, orders, user_sessions, next_id>>

\* UPDATE menu_items SET price = :price WHERE id = :menu_item_id
MenuItemCRUD_update(menu_item_id, price) ==
    /\ menu_items' = [m \in DOMAIN menu_items |->
                        IF m = menu_item_id THEN [menu_items[m] EXCEPT !.price = price]
                        ELSE menu_items[m]]
    /\ UNCHANGED <<users, services, orders, order_items, user_sessions, next_id>>

\* order_data.dict(exclude_unset=True) applied to one row
Merged(row, update_data) ==
    [f \in DOMAIN row |-> IF f \in DOMAIN update_data THEN update_data[f] ELSE row[f]]

\* UPDATE orders SET **update_data WHERE id = :order_id (no row: nothing is written)
OrderCRUD_update(order_id, update_data) ==
    /\ orders' = [o \in DOMAIN orders |->
                    IF o = order_id THEN Merged(orders[o], update_data) ELSE orders[o]]
    /\ UNCHANGED <<users, services, menu_items, order_items, user_sessions, next_id>>

----------------------------------------------------------------------------
(* routers/routers_admin.py *)

\* POST /admin/services
create_service(token) ==
    /\ next_id.services <= MaxServices
    /\ LET auth == get_current_user(token, {ADMIN})
       IN  IF auth # 200
           THEN /\ Respond("create_service", auth)
                /\ UNCHANGED db
           ELSE /\ services' = services \cup {next_id.services}
                /\ next_id' = Bump("services")
                /\ Respond("create_service", 200)
                /\ UNCHANGED <<users, menu_items, orders, order_items, user_sessions>>
    /\ UNCHANGED <<tokens, now, reqs>>

\* DELETE /admin/services/{service_id}
delete_service(token, service_id) ==
    /\ LET auth == get_current_user(token, {ADMIN})
       IN  IF auth # 200
           THEN /\ Respond("delete_service", auth)
                /\ UNCHANGED db
           ELSE IF service_id \notin services
           THEN /\ Respond("delete_service", 404)
                /\ UNCHANGED db
           ELSE /\ ServiceCRUD_delete(service_id)
                /\ Respond("delete_service", 200)
    /\ UNCHANGED <<tokens, now, reqs>>

\* POST /admin/service/{service_id}/menu
create_menu_item(token, service_id, price) ==
    /\ next_id.menu_items <= MaxMenuItems
    /\ price > 0
    /\ LET auth == get_current_user(token, {ADMIN})
       IN  IF auth # 200
           THEN /\ Respond("create_menu_item", auth)
                /\ UNCHANGED db
           ELSE IF service_id \notin services
           THEN \* menu_items.service_id references services.id
                /\ Respond("create_menu_item", 500)
                /\ UNCHANGED db
           ELSE /\ menu_items' = Insert(menu_items, next_id.menu_items,
                                        MenuItemRow(service_id, price))
                /\ next_id' = Bump("menu_items")
                /\ Respond("create_menu_item", 200)
                /\ UNCHANGED <<users, services, orders, order_items, user_sessions>>
    /\ UNCHANGED <<tokens, now, reqs>>

\* POST /admin/menu/{menu_item_id}
update_menu_item(token, menu_item_id, price) ==
    /\ price > 0
    /\ LET auth == get_current_user(token, {ADMIN})
       IN  IF auth # 200
           THEN /\ Respond("update_menu_item", auth)
                /\ UNCHANGED db
           ELSE IF menu_item_id \notin DOMAIN menu_items
           THEN /\ Respond("update_menu_item", 404)
                /\ UNCHANGED db
           ELSE /\ MenuItemCRUD_update(menu_item_id, price)
                /\ Respond("update_menu_item", 200)
    /\ UNCHANGED <<tokens, now, reqs>>

\* DELETE /admin/menu/{menu_item_id}
delete_menu_item(token, menu_item_id) ==
    /\ LET auth == get_current_user(token, {ADMIN})
       IN  IF auth # 200
           THEN /\ Respond("delete_menu_item", auth)
                /\ UNCHANGED db
           ELSE IF menu_item_id \notin DOMAIN menu_items
           THEN /\ Respond("delete_menu_item", 404)
                /\ UNCHANGED db
           ELSE /\ MenuItemCRUD_delete(menu_item_id)
                /\ Respond("delete_menu_item", 200)
    /\ UNCHANGED <<tokens, now, reqs>>

\* A create_team_member without the get_current_user dependency
create_team_member_Open(token, username, email, phone, password) ==
    /\ IF get_by_username(username) # {}
       THEN /\ RespondWith("create_team_member", 200, "Username already exists")
            /\ UNCHANGED db
       ELSE IF ~UniqueOk(username, email, phone)
       THEN /\ Respond("create_team_member", 500)
            /\ UNCHANGED db
       ELSE /\ next_id.users <= MaxUsers
            /\ users' = Insert(users, next_id.users,
                               UserRow(username, email, phone, password, TEAM_MEMBER))
            /\ next_id' = Bump("users")
            /\ Respond("create_team_member", 200)
            /\ UNCHANGED <<services, menu_items, orders, order_items, user_sessions>>
    /\ UNCHANGED <<tokens, now, reqs>>

\* POST /admin/team-members
create_team_member(token, username, email, phone, password) ==
    /\ LET auth == get_current_user(token, {ADMIN})
       IN  IF auth # 200
           THEN /\ Respond("create_team_member", auth)
                /\ UNCHANGED db
           ELSE IF get_by_username(username) # {}
           THEN /\ RespondWith("create_team_member", 200, "Username already exists")
                /\ UNCHANGED db
           ELSE IF ~UniqueOk(username, email, phone)
           THEN /\ Respond("create_team_member", 500)
                /\ UNCHANGED db
           ELSE /\ next_id.users <= MaxUsers
                /\ users' = Insert(users, next_id.users,
                                   UserRow(username, email, phone, password, TEAM_MEMBER))
                /\ next_id' = Bump("users")
                /\ Respond("create_team_member", 200)
                /\ UNCHANGED <<services, menu_items, orders, order_items, user_sessions>>
    /\ UNCHANGED <<tokens, now, reqs>>

\* DELETE /admin/team-members/{user_id}
delete_team_member(token, user_id) ==
    /\ LET auth == get_current_user(token, {ADMIN})
       IN  IF auth # 200
           THEN /\ Respond("delete_team_member", auth)
                /\ UNCHANGED db
           ELSE IF user_id \notin DOMAIN users
           THEN /\ Respond("delete_team_member", 404)
                /\ UNCHANGED db
           ELSE IF users[user_id].role # TEAM_MEMBER
           THEN /\ Respond("delete_team_member", 400)
                /\ UNCHANGED db
           ELSE /\ UserCRUD_delete(user_id)
                /\ Respond("delete_team_member", 200)
    /\ UNCHANGED <<tokens, now, reqs>>

\* An assignment that marks the order assigned and forgets to name the assignee
assign_order_StatusOnly(token, order_id, team_member_id) ==
    /\ LET auth == get_current_user(token, {ADMIN})
       IN  IF auth # 200
           THEN /\ Respond("assign_order", auth)
                /\ UNCHANGED db
           ELSE IF order_id \notin DOMAIN orders \/ team_member_id \notin DOMAIN users
           THEN /\ Respond("assign_order", 500)
                /\ UNCHANGED db
           ELSE /\ OrderCRUD_update(order_id, [status |-> ASSIGNED])
                /\ Respond("assign_order", 200)
    /\ UNCHANGED <<tokens, now, reqs>>

\* An assignment open to every caller
assign_order_AnyCaller(token, order_id, team_member_id) ==
    /\ IF order_id \notin DOMAIN orders \/ team_member_id \notin DOMAIN users
       THEN /\ Respond("assign_order", 500)
            /\ UNCHANGED db
       ELSE /\ OrderCRUD_update(order_id,
                   [assigned_to |-> team_member_id, status |-> ASSIGNED])
            /\ Respond("assign_order", 200)
    /\ UNCHANGED <<tokens, now, reqs>>

\* POST /admin/orders/{order_id}/assign
assign_order(token, order_id, team_member_id) ==
    /\ LET auth == get_current_user(token, {ADMIN})
       IN  IF auth # 200
           THEN /\ Respond("assign_order", auth)
                /\ UNCHANGED db
           ELSE IF order_id \notin DOMAIN orders
           THEN \* no row is updated; updated_order is None and .team_member raises
                /\ Respond("assign_order", 500)
                /\ UNCHANGED db
           ELSE IF team_member_id \notin DOMAIN users
           THEN \* orders.assigned_to references users.id
                /\ Respond("assign_order", 500)
                /\ UNCHANGED db
           ELSE /\ OrderCRUD_update(order_id,
                       [assigned_to |-> team_member_id, status |-> ASSIGNED])
                /\ Respond("assign_order", 200)
    /\ UNCHANGED <<tokens, now, reqs>>

\* UserCRUD.delete called on any user (the data-access layer has no role check)
user_delete(user_id) ==
    /\ user_id \in DOMAIN users
    /\ UserCRUD_delete(user_id)
    /\ UNCHANGED <<tokens, now, reqs, resp>>

----------------------------------------------------------------------------
(* crud/crud_order.py: the one-time password *)

\* str(random.randint(1000, 9999)): the two ends of the range stand for it
OtpValues == {"1000", "9999"}

\* What a team member may type into the form
SubmittedOtps == OtpValues \cup {"0000"}

\* OrderCRUD.generate_otp: UPDATE orders SET otp, otp_expiry WHERE id = :order_id
generate_otp(order_id, otp) ==
    OrderCRUD_update(order_id, [otp |-> otp, otp_expiry |-> now + OTP_EXPIRE_MINUTES])

\* A verification that never looks at the expiry
verify_otp_NoExpiryCheck(order_id, otp) ==
    /\ order_id \in DOMAIN orders
    /\ orders[order_id].otp # NoOtp
    /\ orders[order_id].otp = otp

\* A verification that accepts any value while an unexpired OTP is stored
verify_otp_AnyValue(order_id, otp) ==
    /\ order_id \in DOMAIN orders
    /\ orders[order_id].otp # NoOtp
    /\ orders[order_id].otp_expiry # NULL
    /\ now <= orders[order_id].otp_expiry

\* OrderCRUD.verify_otp: SELECT otp, otp_expiry, then the three tests
verify_otp(order_id, otp) ==
    IF order_id \notin DOMAIN orders THEN FALSE
    ELSE LET stored_otp == orders[order_id].otp
             otp_expiry == orders[order_id].otp_expiry
         IN  IF stored_otp = NoOtp \/ otp_expiry = NULL THEN FALSE
             ELSE IF now > otp_expiry THEN FALSE
             ELSE stored_otp = otp

----------------------------------------------------------------------------
(* core/core_utils.py: send_sms_via_twilio, as seen by its caller *)

\* skipped: no credentials; sent; failed: TwilioRestException; raised: any other error
SmsOutcomes == {"skipped", "sent", "failed", "raised"}

----------------------------------------------------------------------------
(* routers/team/member.py: each await is a point where other requests run *)

Start(slot, op, pc, token, order_id, otp) ==
    reqs' = [reqs EXCEPT ![slot] = [op |-> op, pc |-> pc, user_id |-> token.user_id,
                                    order_id |-> order_id, otp |-> otp]]

Finish(slot) == reqs' = [reqs EXCEPT ![slot] = Idle]

\* request-otp without the test of the order's status
request_otp_begin_AnyStatus(slot, token, order_id) ==
    /\ reqs[slot] = Idle
    /\ LET auth == get_current_user(token, {TEAM_MEMBER})
       IN  IF auth # 200
           THEN Respond("request_otp", auth) /\ UNCHANGED reqs
           ELSE IF order_id \notin DOMAIN orders
           THEN Respond("request_otp", 404) /\ UNCHANGED reqs
           ELSE IF orders[order_id].assigned_to # token.user_id
           THEN Respond("request_otp", 403) /\ UNCHANGED reqs
           ELSE Start(slot, "request_otp", "generate", token, order_id, NoOtp)
                /\ UNCHANGED resp
    /\ UNCHANGED <<db, tokens, now>>

\* POST /team/order/{order_id}/request-otp, up to the guards
request_otp_begin(slot, token, order_id) ==
    /\ reqs[slot] = Idle
    /\ LET auth == get_current_user(token, {TEAM_MEMBER})
       IN  IF auth # 200
           THEN Respond("request_otp", auth) /\ UNCHANGED reqs
           ELSE IF order_id \notin DOMAIN orders
           THEN Respond("request_otp", 404) /\ UNCHANGED reqs
           ELSE IF orders[order_id].assigned_to # token.user_id
           THEN Respond("request_otp", 403) /\ UNCHANGED reqs
           ELSE IF orders[order_id].status # OUT_FOR_DELIVERY
           THEN Respond("request_otp", 400) /\ UNCHANGED reqs
           ELSE Start(slot, "request_otp", "generate", token, order_id, NoOtp)
                /\ UNCHANGED resp
    /\ UNCHANGED <<db, tokens, now>>

\* ... order.generate_otp(db, order_id)
request_otp_generate(slot, otp) ==
    /\ reqs[slot].op = "request_otp"
    /\ reqs[slot].pc = "generate"
    /\ generate_otp(reqs[slot].order_id, otp)
    /\ reqs' = [reqs EXCEPT ![slot].pc = "notify", ![slot].otp = otp]
    /\ UNCHANGED <<tokens, now, resp>>

\* A notification whose failure fails the request and takes the OTP back
request_otp_notify_Surfacing(slot, outcome) ==
    /\ reqs[slot].op = "request_otp"
    /\ reqs[slot].pc = "notify"
    /\ IF outcome \in {"failed", "raised"}
       THEN /\ RespondWith("request_otp", 500, outcome)
            /\ OrderCRUD_update(reqs[slot].order_id, [otp |-> NoOtp, otp_expiry |-> NULL])
       ELSE /\ RespondWith("request_otp", 200, outcome)
            /\ UNCHANGED db
    /\ Finish(slot)
    /\ UNCHANGED <<tokens, now>>

\* ... send_sms_via_twilio inside try/except, then the form for the OTP
request_otp_notify(slot, outcome) ==
    /\ reqs[slot].op = "request_otp"
    /\ reqs[slot].pc = "notify"
    /\ RespondWith("request_otp", 200, outcome)
    /\ Finish(slot)
    /\ UNCHANGED <<db, tokens, now>>

\* POST /team/order/{order_id}/verify-otp, up to the guards
verify_otp_begin(slot, token, order_id, otp) ==
    /\ reqs[slot] = Idle
    /\ LET auth == get_current_user(token, {TEAM_MEMBER})
       IN  IF auth # 200
           THEN Respond("verify_otp", auth) /\ UNCHANGED reqs
           ELSE IF order_id \notin DOMAIN orders
           THEN Respond("verify_otp", 404) /\ UNCHANGED reqs
           ELSE IF orders[order_id].assigned_to # token.user_id
           THEN Respond("verify_otp", 403) /\ UNCHANGED reqs
           ELSE Start(slot, "verify_otp", "verify", token, order_id, otp)
                /\ UNCHANGED resp
    /\ UNCHANGED <<db, tokens, now>>

\* ... is_valid = order.verify_otp(db, order_id, otp)
verify_otp_check(slot) ==
    /\ reqs[slot].op = "verify_otp"
    /\ reqs[slot].pc = "verify"
    /\ IF verify_otp(reqs[slot].order_id, reqs[slot].otp)
       THEN /\ reqs' = [reqs EXCEPT ![slot].pc = "update"]
            /\ UNCHANGED resp
       ELSE /\ RespondWith("verify_otp", 200, "invalid")
            /\ Finish(slot)
    /\ UNCHANGED <<db, tokens, now>>

\* A confirmation that uses the OTP up: the stored value is cleared with the write
verify_otp_update_ClearingOtp(slot) ==
    /\ reqs[slot].op = "verify_otp"
    /\ reqs[slot].pc = "update"
    /\ OrderCRUD_update(reqs[slot].order_id,
                        [status |-> DELIVERED, delivery_confirmed_at |-> now,
                         otp |-> NoOtp, otp_expiry |-> NULL])
    /\ RespondWith("verify_otp", 200, "delivered")
    /\ Finish(slot)
    /\ UNCHANGED <<tokens, now>>

\* A confirmation that looks at the assignment again before it writes
verify_otp_update_Rechecking(slot) ==
    /\ reqs[slot].op = "verify_otp"
    /\ reqs[slot].pc = "update"
    /\ IF /\ reqs[slot].order_id \in DOMAIN orders
          /\ orders[reqs[slot].order_id].assigned_to # reqs[slot].user_id
       THEN /\ Respond("verify_otp", 403)
            /\ UNCHANGED db
       ELSE /\ OrderCRUD_update(reqs[slot].order_id,
                                [status |-> DELIVERED, delivery_confirmed_at |-> now])
            /\ RespondWith("verify_otp", 200, "delivered")
    /\ Finish(slot)
    /\ UNCHANGED <<tokens, now>>

\* A confirmation that writes the status and leaves the stamp for later
verify_otp_update_StatusOnly(slot) ==
    /\ reqs[slot].op = "verify_otp"
    /\ reqs[slot].pc = "update"
    /\ OrderCRUD_update(reqs[slot].order_id, [status |-> DELIVERED])
    /\ RespondWith("verify_otp", 200, "delivered")
    /\ Finish(slot)
    /\ UNCHANGED <<tokens, now>>

\* ... order.update(db, order_id, OrderUpdate(status="delivered", delivery_confirmed_at=utcnow()))
verify_otp_update(slot) ==
    /\ reqs[slot].op = "verify_otp"
    /\ reqs[slot].pc = "update"
    /\ OrderCRUD_update(reqs[slot].order_id,
                        [status |-> DELIVERED, delivery_confirmed_at |-> now])
    /\ RespondWith("verify_otp", 200, "delivered")
    /\ Finish(slot)
    /\ UNCHANGED <<tokens, now>>

\* OrderCRUD.update called with a status alone: the only way an order leaves
\* "assigned" for "out_for_delivery", since no router writes that status
set_status(order_id, status) ==
    /\ order_id \in DOMAIN orders
    /\ orders[order_id].status # status
    /\ OrderCRUD_update(order_id, [status |-> status])
    /\ UNCHANGED <<tokens, now, reqs, resp>>

\* A minute passes
Tick ==
    /\ now < MaxTime
    /\ now' = now + 1
    /\ UNCHANGED <<db, tokens, reqs, resp>>

----------------------------------------------------------------------------
(* Catalogue and ordering, from the freshly migrated database *)

\* The registration forms submitted: each person has their own e-mail and phone
Forms == {[username |-> "asha", email |-> "asha@example.com", phone |-> "+911111111111",
           password |-> "secret1"],
          [username |-> "ravi", email |-> "ravi@example.com", phone |-> "+912222222222",
           password |-> "secret2"]}

Next ==
    \/ \E f \in Forms : register(f.username, f.email, f.phone, f.password, f.password)
    \/ admin_login(ADMIN_USERNAME, ADMIN_PASSWORD)
    \/ \E t \in Callers({ADMIN}) : create_service(t)
    \/ \E t \in Callers({ADMIN}), s \in 1..MaxServices, p \in 1..MaxPrice :
           create_menu_item(t, s, p)
    \/ \E t \in Callers({ADMIN}), m \in ItemIds, p \in 1..MaxPrice : update_menu_item(t, m, p)
    \/ \E t \in Callers({ADMIN}), m \in DOMAIN menu_items : delete_menu_item(t, m)
    \/ \E t \in Callers({ADMIN}), s \in services : delete_service(t, s)
    \/ \E t \in Callers({CUSTOMER}), s \in 1..MaxServices, items \in Carts :
           place_order(t, s, items)
    \/ \E u \in DOMAIN users : users[u].role = CUSTOMER /\ user_delete(u)

Spec == Init /\ [][Next]_vars

----------------------------------------------------------------------------
(* Delivery: a database in which an order is waiting, and everyone is logged in.  *)
(* The state is reached from Init by admin_login, create_team_member twice,       *)
(* login of both team members, register, create_service, create_menu_item and     *)
(* place_order.                                                                   *)

InitDelivery ==
    /\ users = (1 :> UserRow(ADMIN_USERNAME, ADMIN_EMAIL, ADMIN_PHONE, ADMIN_PASSWORD, ADMIN)
             @@ 2 :> UserRow("dev", "dev@example.com", "+913333333333", "secret3", TEAM_MEMBER)
             @@ 3 :> UserRow("mina", "mina@example.com", "+914444444444", "secret4", TEAM_MEMBER)
             @@ 4 :> UserRow("asha", "asha@example.com", "+911111111111", "secret1", CUSTOMER))
    /\ services = {1}
    /\ menu_items = (1 :> MenuItemRow(1, 2))
    /\ orders = (1 :> OrderRow(4, 1, 2))
    /\ order_items = (1 :> [order_id |-> 1, menu_item_id |-> 1, quantity |-> 1,
                            price_at_time |-> 2])
    /\ user_sessions = (1 :> [user_id |-> 1, login_time |-> 0, logout_time |-> NULL]
                     @@ 2 :> [user_id |-> 2, login_time |-> 0, logout_time |-> NULL]
                     @@ 3 :> [user_id |-> 3, login_time |-> 0, logout_time |-> NULL]
                     @@ 4 :> [user_id |-> 4, login_time |-> 0, logout_time |-> NULL])
    /\ next_id = [users |-> 5, services |-> 2, menu_items |-> 2, orders |-> 2,
                  order_items |-> 2, user_sessions |-> 5]
    /\ tokens = {[sub |-> users[u].username, user_id |-> u, role |-> users[u].role,
                  exp |-> ACCESS_TOKEN_EXPIRE_MINUTES, key |-> SECRET_KEY] : u \in 1..4}
    /\ now = 0
    /\ reqs = [s \in 1..MaxInFlight |-> Idle]
    /\ resp = [op |-> "place_order", status |-> 303, detail |-> ""]

Slots == 1..MaxInFlight
OrderIds == 1..MaxOrders

NextDelivery ==
    \/ \E t \in Callers({ADMIN}), o \in DOMAIN orders, u \in DOMAIN users :
           users[u].role = TEAM_MEMBER /\ assign_order(t, o, u)
    \/ \E o \in DOMAIN orders, st \in OrderStatus : set_status(o, st)
    \/ \E s \in Slots, t \in tokens, o \in OrderIds : request_otp_begin(s, t, o)
    \/ \E s \in Slots, otp \in OtpValues : request_otp_generate(s, otp)
    \/ \E s \in Slots, outcome \in SmsOutcomes : request_otp_notify(s, outcome)
    \/ \E s \in Slots, t \in tokens, o \in OrderIds, otp \in SubmittedOtps :
           verify_otp_begin(s, t, o, otp)
    \/ \E s \in Slots : verify_otp_check(s)
    \/ \E s \in Slots : verify_otp_update(s)
    \/ Tick

SpecDelivery == InitDelivery /\ [][NextDelivery]_vars

----------------------------------------------------------------------------
(* Order totals and price snapshots *)

\* The orders a step inserts
Created == (DOMAIN orders') \ (DOMAIN orders)

\* C1: every order creation persists an order whose total_amount is the sum of
\* price_at_time * quantity over the lines persisted for it, each line carrying the
\* price its menu item had when the order was created.
C1_TotalIsSumOfLines ==
    [][\A o \in Created :
          /\ orders'[o].total_amount = LinesTotal(order_items', o)
          /\ \A i \in ItemsOf(order_items', o) :
                /\ order_items'[i].menu_item_id \in DOMAIN menu_items
                /\ order_items'[i].price_at_time =
                       menu_items[order_items'[i].menu_item_id].price]_vars

\* An order was just placed with two lines of different quantities
C1_Witness ==
    /\ resp = [op |-> "place_order", status |-> 303, detail |-> ""]
    /\ \E o \in DOMAIN orders :
          /\ Cardinality(ItemsOf(order_items, o)) = 2
          /\ \E i, j \in ItemsOf(order_items, o) :
                order_items[i].quantity # order_items[j].quantity
          /\ orders[o].total_amount = LinesTotal(order_items, o)

\* C2: a menu-item price update leaves the total_amount of every placed order and
\* the price_at_time of every persisted line as they were, at every such update.
C2_PriceUpdateKeepsOrders ==
    [][(\E t \in tokens, m \in ItemIds, p \in 1..MaxPrice : update_menu_item(t, m, p))
         => /\ DOMAIN orders' = DOMAIN orders
            /\ \A o \in DOMAIN orders : orders'[o].total_amount = orders[o].total_amount
            /\ DOMAIN order_items' = DOMAIN order_items
            /\ \A i \in DOMAIN order_items :
                  order_items'[i].price_at_time = order_items[i].price_at_time]_vars

\* A placed line whose snapshot differs from today's price of its menu item
C2_Witness ==
    /\ resp = [op |-> "update_menu_item", status |-> 200, detail |-> ""]
    /\ \E i \in DOMAIN order_items :
          /\ order_items[i].menu_item_id \in DOMAIN menu_items
          /\ order_items[i].price_at_time # menu_items[order_items[i].menu_item_id].price
          /\ orders[order_items[i].order_id].total_amount =
                 LinesTotal(order_items, order_items[i].order_id)

\* C3: in every reachable state each existing order's total_amount is the sum of
\* price_at_time * quantity over the lines that currently exist for it.
C3_TotalMatchesLines ==
    \A o \in DOMAIN orders : orders[o].total_amount = LinesTotal(order_items, o)

----------------------------------------------------------------------------
(* Delivery confirmation by one-time password *)

\* The steps of the team-member handlers, told by the request slot they move
Checking(s) == reqs[s].op = "verify_otp" /\ reqs[s].pc = "verify" /\ reqs'[s] # reqs[s]
Confirming(s) == reqs[s].op = "verify_otp" /\ reqs[s].pc = "update" /\ reqs'[s] # reqs[s]
Generating(s) == reqs[s].op = "request_otp" /\ reqs[s].pc = "generate" /\ reqs'[s] # reqs[s]
Notifying(s) == reqs[s].op = "request_otp" /\ reqs[s].pc = "notify" /\ reqs'[s] # reqs[s]

Invalid == [op |-> "verify_otp", status |-> 200, detail |-> "invalid"]
Delivered == [op |-> "verify_otp", status |-> 200, detail |-> "delivered"]

\* Status and confirmation stamp of every order are what they were
DeliveryUntouched ==
    /\ DOMAIN orders' = DOMAIN orders
    /\ \A o \in DOMAIN orders :
          /\ orders'[o].status = orders[o].status
          /\ orders'[o].delivery_confirmed_at = orders[o].delivery_confirmed_at

\* C4: verification answers "invalid" whenever the order has no stored OTP, no stored
\* expiry, the clock is past the expiry, or the submitted value differs from the
\* stored one; the request then ends without touching status or delivery_confirmed_at.
C4_InvalidOtpChangesNothing ==
    [][\A s \in Slots :
          (/\ Checking(s)
           /\ reqs[s].order_id \in DOMAIN orders
           /\ LET o == orders[reqs[s].order_id]
              IN  \/ o.otp = NoOtp
                  \/ o.otp_expiry = NULL
                  \/ now > o.otp_expiry
                  \/ reqs[s].otp # o.otp)
          => /\ resp' = Invalid
             /\ reqs'[s] = Idle
             /\ DeliveryUntouched]_vars

\* A matching OTP was refused because it had expired, and the order is still on its way
C4_Witness ==
    /\ resp = Invalid
    /\ \E o \in DOMAIN orders :
          /\ orders[o].otp # NoOtp
          /\ now > orders[o].otp_expiry
          /\ orders[o].status = OUT_FOR_DELIVERY
          /\ orders[o].delivery_confirmed_at = NULL

\* C5 as claimed: verification succeeds only for the stored value and strictly before
\* the expiry instant; at now = otp_expiry it does not succeed.
C5_OnlyStrictlyBeforeExpiry ==
    [][\A s \in Slots :
          (Checking(s) /\ reqs'[s].pc = "update")
          => /\ reqs[s].otp = orders[reqs[s].order_id].otp
             /\ now < orders[reqs[s].order_id].otp_expiry]_vars

\* C5 as the code has it: verification succeeds only for the stored value and not
\* after the expiry instant; at now = otp_expiry the stored value is still accepted.
C5_OnlyUntilExpiry ==
    [][\A s \in Slots :
          (Checking(s) /\ reqs'[s].pc = "update")
          => /\ reqs[s].order_id \in DOMAIN orders
             /\ orders[reqs[s].order_id].otp # NoOtp
             /\ reqs[s].otp = orders[reqs[s].order_id].otp
             /\ now <= orders[reqs[s].order_id].otp_expiry]_vars

\* A verification has passed at the very instant of expiry
C5_Witness ==
    \E s \in Slots :
        /\ reqs[s].op = "verify_otp"
        /\ reqs[s].pc = "update"
        /\ reqs[s].order_id \in DOMAIN orders
        /\ reqs[s].otp = orders[reqs[s].order_id].otp
        /\ now = orders[reqs[s].order_id].otp_expiry

\* The guards of request-otp, on the order the request finds
MayRequestOtp(token, order_id) ==
    /\ get_current_user(token, {TEAM_MEMBER}) = 200
    /\ order_id \in DOMAIN orders
    /\ orders[order_id].assigned_to = token.user_id
    /\ orders[order_id].status = OUT_FOR_DELIVERY

\* C6: request-otp goes on to store an OTP only for a caller who is the team member
\* the order it finds is assigned to, the order being out_for_delivery; for a missing
\* order, another assignee or another status it is rejected and writes nothing; and
\* nothing but such an admitted request ever writes otp or otp_expiry.
C6_OtpOnlyForAssigneeOutForDelivery ==
    [][/\ \A s \in Slots, t \in tokens, o \in OrderIds :
             request_otp_begin(s, t, o)
             => IF MayRequestOtp(t, o)
                THEN reqs'[s].op = "request_otp" /\ reqs'[s].pc = "generate"
                                                 /\ reqs'[s].order_id = o
                ELSE /\ resp'.op = "request_otp"
                     /\ resp'.status \in {400, 401, 403, 404}
                     /\ reqs' = reqs
                     /\ orders' = orders
       /\ \A o \in (DOMAIN orders) \cap (DOMAIN orders') :
             (orders'[o].otp # orders[o].otp \/ orders'[o].otp_expiry # orders[o].otp_expiry)
             => \E s \in Slots : Generating(s) /\ reqs[s].order_id = o]_vars

\* A request was turned away because the order is not out for delivery, and the
\* OTP issued earlier is still the one stored
C6_Witness ==
    /\ resp = [op |-> "request_otp", status |-> 400, detail |-> ""]
    /\ \E o \in DOMAIN orders :
          /\ orders[o].status # OUT_FOR_DELIVERY
          /\ orders[o].assigned_to # NULL
          /\ orders[o].otp # NoOtp

\* C7: the confirming write of verify-otp sets status delivered and a non-null
\* delivery_confirmed_at in one step, and delivery_confirmed_at is never written
\* without the status being delivered in the same state.
C7_DeliveredAndStampedTogether ==
    [][/\ \A s \in Slots :
             (Confirming(s) /\ reqs[s].order_id \in DOMAIN orders)
             => /\ orders'[reqs[s].order_id].status = DELIVERED
                /\ orders'[reqs[s].order_id].delivery_confirmed_at = now
                /\ orders'[reqs[s].order_id].delivery_confirmed_at # NULL
                /\ resp' = Delivered
       /\ \A o \in (DOMAIN orders) \cap (DOMAIN orders') :
             orders'[o].delivery_confirmed_at # orders[o].delivery_confirmed_at
             => orders'[o].status = DELIVERED /\ orders'[o].delivery_confirmed_at # NULL]_vars

\* A delivery was just confirmed by the assigned team member
C7_Witness ==
    /\ resp = Delivered
    /\ \E o \in DOMAIN orders :
          /\ orders[o].status = DELIVERED
          /\ orders[o].delivery_confirmed_at = now
          /\ orders[o].assigned_to # NULL

\* C8: once an order is confirmed delivered, a verify-otp replaying the stored,
\* still unexpired OTP leaves its status and delivery_confirmed_at as they are.
C8_ReplayChangesNothing ==
    [][\A s \in Slots :
          (/\ reqs[s].op = "verify_otp"
           /\ reqs'[s] # reqs[s]
           /\ reqs[s].order_id \in DOMAIN orders
           /\ reqs[s].otp = orders[reqs[s].order_id].otp
           /\ orders[reqs[s].order_id].status = DELIVERED
           /\ orders[reqs[s].order_id].delivery_confirmed_at # NULL)
          => DeliveryUntouched]_vars

\* C9: once request-otp has passed its guards the OTP and its expiry are written to
\* the order, and whatever the SMS gateway does (skipped, sent, failed, raised) the
\* request answers 200 and the stored OTP is left as written.
C9_SmsNeverFailsIssuance ==
    [][\A s \in Slots :
          /\ (Generating(s) /\ reqs[s].order_id \in DOMAIN orders)
             => /\ reqs'[s].pc = "notify"
                /\ orders'[reqs[s].order_id].otp = reqs'[s].otp
                /\ orders'[reqs[s].order_id].otp \in OtpValues
                /\ orders'[reqs[s].order_id].otp_expiry = now + OTP_EXPIRE_MINUTES
          /\ Notifying(s)
             => /\ resp'.op = "request_otp"
                /\ resp'.status = 200
                /\ resp'.detail \in SmsOutcomes
                /\ reqs'[s] = Idle
                /\ orders' = orders]_vars

\* The gateway raised, the request succeeded and the OTP is in place
C9_Witness ==
    /\ resp = [op |-> "request_otp", status |-> 200, detail |-> "raised"]
    /\ \E o \in DOMAIN orders :
          /\ orders[o].otp \in OtpValues
          /\ orders[o].otp_expiry = now + OTP_EXPIRE_MINUTES

----------------------------------------------------------------------------
(* Signing in *)

LoginNames == {f.username : f \in Forms} \cup {ADMIN_USERNAME}
LoginPasswords == {f.password : f \in Forms} \cup {ADMIN_PASSWORD}

NextAuth ==
    \/ \E f \in Forms : register(f.username, f.email, f.phone, f.password, f.password)
    \/ \E u \in LoginNames, p \in LoginPasswords, r \in UserRole : login(u, p, r)
    \/ \E u \in LoginNames, p \in LoginPasswords : admin_login(u, p)
    \/ \E t \in tokens, f \in Forms :
           create_team_member(t, f.username, f.email, f.phone, f.password)
    \/ \E t \in tokens, u \in 1..MaxUsers : delete_team_member(t, u)
    \/ \E k \in 1..MaxSessions : logout(k)

SpecAuth == Init /\ [][NextAuth]_vars

\* C10: a login whose username and password are right but whose selected role is not
\* the account's is answered 403, a login whose credentials are wrong is answered 401,
\* and after either answer no token has been issued and no login session opened.
C10_WrongRoleIsForbidden ==
    [][\A u \in LoginNames, p \in LoginPasswords, r \in UserRole :
          login(u, p, r)
          => LET db_user == authenticate(u, p)
             IN  /\ (db_user # NULL /\ users[db_user].role # r)
                    => resp' = [op |-> "login", status |-> 403, detail |-> ""]
                 /\ db_user = NULL
                    => resp' = [op |-> "login", status |-> 401, detail |-> ""]
                 /\ resp'.status \in {401, 403}
                    => /\ tokens' = tokens
                       /\ user_sessions' = user_sessions
                       /\ next_id' = next_id]_vars

\* A registered customer chose another role at login: forbidden, and the only token
\* and session in existence are those of the registration
C10_Witness ==
    /\ resp = [op |-> "login", status |-> 403, detail |-> ""]
    /\ \E u \in DOMAIN users : users[u].role = CUSTOMER
    /\ Cardinality(tokens) = 1
    /\ Cardinality(DOMAIN user_sessions) = 1

----------------------------------------------------------------------------
(* Protected requests *)

\* The session outlives the token: more than ACCESS_TOKEN_EXPIRE_MINUTES pass at once
Sleep ==
    /\ now <= MaxTime
    /\ now' = now + ACCESS_TOKEN_EXPIRE_MINUTES + 1
    /\ UNCHANGED <<db, tokens, reqs, resp>>

\* What a client can put in the access_token cookie or the Authorization header:
\* nothing, a token the application issued, an issued payload re-signed with another
\* key (its role rewritten or not), or a payload under the right key without user_id
Credentials ==
    {NoToken} \cup tokens
    \cup {[t EXCEPT !.key = "guessed", !.role = r] : t \in tokens, r \in UserRole}
    \cup {[t EXCEPT !.user_id = NULL] : t \in tokens}

\* The carts of a single line
SingleLine == {items \in Carts : Len(items) = 1}

NextAccess ==
    \/ \E f \in Forms : register(f.username, f.email, f.phone, f.password, f.password)
    \/ admin_login(ADMIN_USERNAME, ADMIN_PASSWORD)
    \/ \E f \in Forms : login(f.username, f.password, TEAM_MEMBER)
    \/ \E c \in Credentials, f \in Forms :
           create_team_member(c, f.username, f.email, f.phone, f.password)
    \/ \E c \in Credentials, u \in 1..MaxUsers : delete_team_member(c, u)
    \/ \E c \in Credentials : create_service(c)
    \/ \E c \in Credentials, items \in SingleLine : place_order(c, 1, items)
    \/ \E s \in Slots, c \in Credentials, o \in OrderIds : request_otp_begin(s, c, o)
    \/ \E u \in DOMAIN users : users[u].role = CUSTOMER /\ user_delete(u)
    \/ Sleep

SpecAccess == Init /\ [][NextAccess]_vars

\* The caller a credential stands for cannot be established
Unauthenticated(c) ==
    \/ c = NoToken
    \/ c.key # SECRET_KEY
    \/ c.exp < now
    \/ c.sub = "" \/ c.user_id = NULL \/ c.role = ""
    \/ c.user_id \notin DOMAIN users

\* The outcome of a protected request made with credential c, answered as op
Resolved(c, allowed_roles, op) ==
    /\ Unauthenticated(c)
       => /\ resp' = [op |-> op, status |-> 401, detail |-> ""]
          /\ UNCHANGED <<db, tokens, reqs>>
    /\ (~Unauthenticated(c) /\ c.role \notin allowed_roles)
       => /\ resp' = [op |-> op, status |-> 403, detail |-> ""]
          /\ UNCHANGED <<db, tokens, reqs>>
    /\ (~Unauthenticated(c) /\ c.role \in allowed_roles)
       => /\ get_current_user(c, allowed_roles) = 200
          /\ c \in tokens
          /\ users[c.user_id].username = c.sub

\* C11: a protected request is answered 401 when it carries no token, a token that does
\* not decode (wrong key, expired), a token without a claim, or a token of a user who
\* no longer exists; 403 when the token is good, its user exists and its role is not
\* allowed; otherwise the handler runs for the token's user. After 401 or 403 the
\* database, the tokens and the requests in flight are as before.
C11_ThreeOutcomes ==
    [][\A c \in Credentials :
          /\ \A f \in Forms :
                create_team_member(c, f.username, f.email, f.phone, f.password)
                => Resolved(c, {ADMIN}, "create_team_member")
          /\ \A u \in 1..MaxUsers :
                delete_team_member(c, u) => Resolved(c, {ADMIN}, "delete_team_member")
          /\ create_service(c) => Resolved(c, {ADMIN}, "create_service")
          /\ \A items \in SingleLine :
                place_order(c, 1, items) => Resolved(c, {CUSTOMER}, "place_order")
          /\ \A s \in Slots, o \in OrderIds :
                request_otp_begin(s, c, o) => Resolved(c, {TEAM_MEMBER}, "request_otp")]_vars

\* A customer whose account was deleted after the token was issued is turned away,
\* and so was nobody's order placed
C11_Witness ==
    /\ resp = [op |-> "place_order", status |-> 401, detail |-> ""]
    /\ \E t \in tokens : t.role = CUSTOMER /\ t.exp >= now /\ t.user_id \notin DOMAIN users
    /\ orders = <<>>

----------------------------------------------------------------------------
(* Login sessions *)

NextSession ==
    \/ \E f \in Forms : register(f.username, f.email, f.phone, f.password, f.password)
    \/ admin_login(ADMIN_USERNAME, ADMIN_PASSWORD)
    \/ \E f \in Forms : login(f.username, f.password, CUSTOMER)
    \/ \E k \in 1..MaxSessions : logout(k)
    \/ Tick

SpecSession == Init /\ [][NextSession]_vars

\* C12: a logout naming a session that is already closed leaves its logout_time at the
\* value the first logout stamped, however often it is repeated; a logout naming no
\* known session changes no session record and is still answered.
C12_ClosedSessionIgnored ==
    [][\A k \in 1..MaxSessions :
          logout(k)
          => /\ resp' = [op |-> "logout", status |-> 302, detail |-> ""]
             /\ k \notin DOMAIN user_sessions => user_sessions' = user_sessions
             /\ (k \in DOMAIN user_sessions /\ user_sessions[k].logout_time # NULL)
                => user_sessions'[k].logout_time = user_sessions[k].logout_time]_vars

----------------------------------------------------------------------------
(* Signing up, one database round trip at a time *)

\* A sign-up in flight: the form it carries and, once inserted, the id of its user
Signup(op, pc, username, email, phone, password, user_id) ==
    [op |-> op, pc |-> pc, username |-> username, email |-> email, phone |-> phone,
     password |-> password, user_id |-> user_id]

\* The unique index the INSERT INTO users runs into
ViolatedIndex(username, email, phone) ==
    IF get_by_email(email) # {} THEN "ix_users_email"
    ELSE IF get_by_phone(phone) # {} THEN "ix_users_phone"
    ELSE "ix_users_username"

\* POST /auth/register: the password test and user.get_by_username
register_begin(slot, username, email, phone, password, confirm_password) ==
    /\ reqs[slot] = Idle
    /\ IF password # confirm_password
       THEN RespondWith("register", 400, "Passwords do not match") /\ UNCHANGED reqs
       ELSE IF get_by_username(username) # {}
       THEN RespondWith("register", 400, "Username already exists") /\ UNCHANGED reqs
       ELSE /\ reqs' = [reqs EXCEPT ![slot] = Signup("register", "check_email", username,
                                                     email, phone, password, NULL)]
            /\ UNCHANGED resp
    /\ UNCHANGED <<db, tokens, now>>

\* ... user.get_by_email
register_check_email(slot) ==
    /\ reqs[slot].op = "register"
    /\ reqs[slot].pc = "check_email"
    /\ IF get_by_email(reqs[slot].email) # {}
       THEN RespondWith("register", 400, "Email already registered") /\ Finish(slot)
       ELSE reqs' = [reqs EXCEPT ![slot].pc = "create"] /\ UNCHANGED resp
    /\ UNCHANGED <<db, tokens, now>>

\* ... user.create: INSERT INTO users and commit, inside try/except
register_create(slot) ==
    /\ reqs[slot].op = "register"
    /\ reqs[slot].pc = "create"
    /\ LET r == reqs[slot]
       IN  IF ~UniqueOk(r.username, r.email, r.phone)
           THEN /\ RespondWith("register", 500, ViolatedIndex(r.username, r.email, r.phone))
                /\ Finish(slot)
                /\ UNCHANGED db
           ELSE /\ next_id.users <= MaxAccounts
                /\ users' = Insert(users, next_id.users,
                                   UserRow(r.username, r.email, r.phone, r.password, CUSTOMER))
                /\ next_id' = Bump("users")
                /\ reqs' = [reqs EXCEPT ![slot].pc = "session",
                                        ![slot].user_id = next_id.users]
                /\ UNCHANGED <<services, menu_items, orders, order_items, user_sessions, resp>>
    /\ UNCHANGED <<tokens, now>>

\* ... user_session.create_login, create_access_token and the redirect
register_session(slot) ==
    /\ reqs[slot].op = "register"
    /\ reqs[slot].pc = "session"
    /\ reqs[slot].user_id \in DOMAIN users
    /\ next_id.user_sessions <= MaxSessions
    /\ OpenSession(reqs[slot].user_id, users[reqs[slot].user_id])
    /\ next_id' = Bump("user_sessions")
    /\ Respond("register", 302)
    /\ Finish(slot)
    /\ UNCHANGED <<users, services, menu_items, orders, order_items, now>>

\* POST /admin/team-members: the caller and user.get_by_username
create_team_member_begin(slot, token, username, email, phone, password) ==
    /\ reqs[slot] = Idle
    /\ LET auth == get_current_user(token, {ADMIN})
       IN  IF auth # 200
           THEN Respond("create_team_member", auth) /\ UNCHANGED reqs
           ELSE IF get_by_username(username) # {}
           THEN RespondWith("create_team_member", 200, "Username already exists")
                /\ UNCHANGED reqs
           ELSE /\ reqs' = [reqs EXCEPT ![slot] = Signup("create_team_member", "create",
                                                   username, email, phone, password, NULL)]
                /\ UNCHANGED resp
    /\ UNCHANGED <<db, tokens, now>>

\* ... user.create, with nothing to catch the IntegrityError
create_team_member_create(slot) ==
    /\ reqs[slot].op = "create_team_member"
    /\ reqs[slot].pc = "create"
    /\ LET r == reqs[slot]
       IN  IF ~UniqueOk(r.username, r.email, r.phone)
           THEN /\ RespondWith("create_team_member", 500,
                               ViolatedIndex(r.username, r.email, r.phone))
                /\ UNCHANGED db
           ELSE /\ next_id.users <= MaxAccounts
                /\ users' = Insert(users, next_id.users,
                                   UserRow(r.username, r.email, r.phone, r.password, TEAM_MEMBER))
                /\ next_id' = Bump("users")
                /\ Respond("create_team_member", 200)
                /\ UNCHANGED <<services, menu_items, orders, order_items, user_sessions>>
    /\ Finish(slot)
    /\ UNCHANGED <<tokens, now>>

\* What the sign-up forms are filled with: any username with any email and phone
SignupNames == {f.username : f \in Forms}
SignupEmails == {f.email : f \in Forms}
SignupPhones == {f.phone : f \in Forms}
SignupPasswords == {"secret1", "secret2"}

NextSignup ==
    \/ admin_login(ADMIN_USERNAME, ADMIN_PASSWORD)
    \/ \E u \in SignupNames, e \in SignupEmails, ph \in SignupPhones, cp \in SignupPasswords :
           register(u, e, ph, "secret1", cp)
    \/ \E t \in tokens, u \in SignupNames, e \in SignupEmails, ph \in SignupPhones :
           create_team_member(t, u, e, ph, "secret1")
    \/ \E s \in Slots, u \in SignupNames, e \in SignupEmails, ph \in SignupPhones,
          cp \in SignupPasswords :
           register_begin(s, u, e, ph, "secret1", cp)
    \/ \E s \in Slots : register_check_email(s)
    \/ \E s \in Slots : register_create(s)
    \/ \E s \in Slots : register_session(s)
    \/ \E s \in Slots, t \in tokens, u \in SignupNames, e \in SignupEmails,
          ph \in SignupPhones :
           create_team_member_begin(s, t, u, e, ph, "secret1")
    \/ \E s \in Slots : create_team_member_create(s)

SpecSignup == Init /\ [][NextSignup]_vars

\* The users table holds exactly one row more, the one of this form, as a customer
OneNewUser(username, email, phone) ==
    /\ \A k \in DOMAIN users : k \in DOMAIN users' /\ users'[k] = users[k]
    /\ \E n \in DOMAIN users' :
          /\ DOMAIN users' = DOMAIN users \cup {n}
          /\ n \notin DOMAIN users
          /\ users'[n].username = username
          /\ users'[n].email = email
          /\ users'[n].phone = phone
          /\ users'[n].role = CUSTOMER

\* C13: a registration whose username or email an existing user already has is answered
\* 400 with "Username already exists" or "Email already registered" and adds no user,
\* no session and no token; a registration whose username, email and phone nobody has
\* is accepted and adds exactly one user.
C13_DuplicateRejectedFreshAccepted ==
    [][\A u \in SignupNames, e \in SignupEmails, ph \in SignupPhones :
          register(u, e, ph, "secret1", "secret1")
          => /\ (get_by_username(u) # {} \/ get_by_email(e) # {})
                => /\ resp'.op = "register"
                   /\ resp'.status = 400
                   /\ resp'.detail \in {"Username already exists", "Email already registered"}
                   /\ get_by_username(u) # {} => resp'.detail = "Username already exists"
                   /\ users' = users
                   /\ user_sessions' = user_sessions
                   /\ tokens' = tokens
             /\ (get_by_username(u) = {} /\ get_by_email(e) = {} /\ get_by_phone(ph) = {})
                => /\ resp' = [op |-> "register", status |-> 302, detail |-> ""]
                   /\ OneNewUser(u, e, ph)]_vars

\* A second sign-up under another username was turned away for its email, and the
\* first registrant is still the only customer
C13_Witness ==
    /\ resp = [op |-> "register", status |-> 400, detail |-> "Email already registered"]
    /\ Cardinality({u \in DOMAIN users : users[u].role = CUSTOMER}) = 1
    /\ Cardinality(tokens) = 1

\* C14: no two rows of users share a username, an email or a phone, also when two
\* sign-ups with the same value have both passed the existence test before either
\* inserted.
C14_UsersUnique ==
    \A a, b \in DOMAIN users :
        a # b => /\ users[a].username # users[b].username
                 /\ users[a].email # users[b].email
                 /\ users[a].phone # users[b].phone

\* A registration passed both existence tests and then ran into the unique index
\* on username: another sign-up had inserted the same name in between
C14_Witness ==
    /\ resp = [op |-> "register", status |-> 500, detail |-> "ix_users_username"]
    /\ Cardinality(DOMAIN users) >= 2

----------------------------------------------------------------------------
(* Orders and deletions: two services, one menu item each, a team member        *)
(* and two customers, everyone logged in.  The state is reached from the        *)
(* migrated database by admin_login, create_team_member, login, register twice, *)
(* create_service twice and create_menu_item twice.                             *)

InitShop ==
    /\ users = (1 :> UserRow(ADMIN_USERNAME, ADMIN_EMAIL, ADMIN_PHONE, ADMIN_PASSWORD, ADMIN)
             @@ 2 :> UserRow("dev", "dev@example.com", "+913333333333", "secret3", TEAM_MEMBER)
             @@ 3 :> UserRow("asha", "asha@example.com", "+911111111111", "secret1", CUSTOMER)
             @@ 4 :> UserRow("ravi", "ravi@example.com", "+912222222222", "secret2", CUSTOMER))
    /\ services = {1, 2}
    /\ menu_items = (1 :> MenuItemRow(1, 2) @@ 2 :> MenuItemRow(2, 1))
    /\ orders = <<>>
    /\ order_items = <<>>
    /\ user_sessions = [k \in 1..4 |-> [user_id |-> k, login_time |-> 0, logout_time |-> NULL]]
    /\ next_id = [users |-> 5, services |-> 3, menu_items |-> 3, orders |-> 1,
                  order_items |-> 1, user_sessions |-> 5]
    /\ tokens = {[sub |-> users[u].username, user_id |-> u, role |-> users[u].role,
                  exp |-> ACCESS_TOKEN_EXPIRE_MINUTES, key |-> SECRET_KEY] : u \in 1..4}
    /\ now = 0
    /\ reqs = [s \in 1..MaxInFlight |-> Idle]
    /\ resp = NoResponse

ShopServices == {1, 2}

\* One line, one unit: which item is ordered is what matters here
ShopCarts == {items \in SingleLine : items[1].quantity = 1}

NextShop ==
    \/ \E t \in Callers({CUSTOMER}), s \in ShopServices, items \in ShopCarts :
           place_order(t, s, items)
    \/ \E t \in tokens, o \in DOMAIN orders, u \in DOMAIN users : assign_order(t, o, u)
    \/ \E t \in Callers({ADMIN}), s \in services : delete_service(t, s)
    \/ \E t \in Callers({ADMIN}), u \in DOMAIN users : delete_team_member(t, u)
    \/ \E u \in DOMAIN users : users[u].role = CUSTOMER /\ user_delete(u)

SpecShop == InitShop /\ [][NextShop]_vars

\* C15: when an admin deletes an existing service, no menu item refers to it afterwards
\* and every menu item of another service is still there, unchanged.
C15_ServiceDeletionTakesItsMenu ==
    [][\A t \in tokens, s \in ShopServices :
          (delete_service(t, s) /\ get_current_user(t, {ADMIN}) = 200 /\ s \in services)
          => /\ s \notin services'
             /\ \A m \in DOMAIN menu_items' : menu_items'[m].service_id # s
             /\ \A m \in DOMAIN menu_items :
                   menu_items[m].service_id # s
                   => m \in DOMAIN menu_items' /\ menu_items'[m] = menu_items[m]]_vars

\* Service 1 was deleted: its menu item went with it, the one of service 2 stayed
C15_Witness ==
    /\ resp = [op |-> "delete_service", status |-> 200, detail |-> ""]
    /\ services = {2}
    /\ DOMAIN menu_items = {2}
    /\ menu_items[2] = MenuItemRow(2, 1)

\* What UserCRUD.delete takes with a customer: their orders, those orders' items
\* and their sessions
CustomerGone(u) ==
    /\ u \notin DOMAIN users'
    /\ \A o \in DOMAIN orders' : orders'[o].customer_id # u
    /\ \A i \in DOMAIN order_items' :
          order_items'[i].order_id \in DOMAIN orders
          /\ orders[order_items'[i].order_id].customer_id # u
    /\ \A k \in DOMAIN user_sessions' : user_sessions'[k].user_id # u

OthersOrders(u) == {o \in DOMAIN orders : orders[o].customer_id # u}

\* The lines of the orders of other customers are the same rows as before
OthersItemsKept(u) ==
    \A o \in OthersOrders(u) :
        /\ ItemsOf(order_items', o) = ItemsOf(order_items, o)
        /\ \A i \in ItemsOf(order_items, o) : order_items'[i] = order_items[i]

\* C16 as stated: deleting a customer removes their orders, those orders' items and
\* their sessions, and every order of another customer is unchanged.
C16_OtherOrdersUnchanged ==
    [][\A u \in DOMAIN users :
          (users[u].role = CUSTOMER /\ user_delete(u))
          => /\ CustomerGone(u)
             /\ OthersItemsKept(u)
             /\ \A o \in OthersOrders(u) :
                   o \in DOMAIN orders' /\ orders'[o] = orders[o]]_vars

\* C16: deleting a customer removes their orders, those orders' items and their
\* sessions; an order of another customer stays, unchanged but for assigned_to, which
\* becomes null where it named the deleted customer.
C16_OtherOrdersKeepAllButAssignee ==
    [][\A u \in DOMAIN users :
          (users[u].role = CUSTOMER /\ user_delete(u))
          => /\ CustomerGone(u)
             /\ OthersItemsKept(u)
             /\ \A o \in OthersOrders(u) :
                   /\ o \in DOMAIN orders'
                   /\ orders'[o] = [orders[o] EXCEPT
                                      !.assigned_to = IF @ = u THEN NULL ELSE @]]_vars

\* asha was deleted after both customers had ordered: of the two orders only ravi's
\* is left, with its line, and no session of asha remains
C16_Witness ==
    /\ 3 \notin DOMAIN users
    /\ services = ShopServices
    /\ next_id.orders = 3
    /\ \E o \in DOMAIN orders :
          /\ DOMAIN orders = {o}
          /\ orders[o].customer_id = 4
          /\ ItemsOf(order_items, o) # {}
    /\ \A k \in DOMAIN user_sessions : user_sessions[k].user_id # 3

----------------------------------------------------------------------------
(* Assigning and dismissing: the delivery database, in which the order is         *)
(* assigned and reassigned at every stage of its delivery, by any caller, and      *)
(* users are deleted meanwhile.                                                    *)

NextDismissal ==
    \/ \E t \in tokens, o \in DOMAIN orders, u \in DOMAIN users : assign_order(t, o, u)
    \/ \E o \in DOMAIN orders : set_status(o, OUT_FOR_DELIVERY)
    \/ \E s \in Slots, t \in tokens, o \in OrderIds : request_otp_begin(s, t, o)
    \/ \E s \in Slots, otp \in OtpValues : request_otp_generate(s, otp)
    \/ \E s \in Slots, outcome \in SmsOutcomes : request_otp_notify(s, outcome)
    \/ \E s \in Slots, t \in tokens, o \in OrderIds, otp \in OtpValues :
           verify_otp_begin(s, t, o, otp)
    \/ \E s \in Slots : verify_otp_check(s)
    \/ \E s \in Slots : verify_otp_update(s)
    \/ \E t \in tokens, u \in DOMAIN users : delete_team_member(t, u)
    \/ \E u \in DOMAIN users : user_delete(u)

SpecDismissal == InitDelivery /\ [][NextDismissal]_vars

\* The orders that name u as assignee and somebody else as customer
AssignedOnly(u) ==
    {o \in DOMAIN orders : orders[o].assigned_to = u /\ orders[o].customer_id # u}

\* Such an order stays, with its lines, and loses nothing but the assignee
AssignmentCleared(u) ==
    \A o \in AssignedOnly(u) :
        /\ o \in DOMAIN orders'
        /\ orders'[o].assigned_to = NULL
        /\ orders'[o].customer_id = orders[o].customer_id
        /\ orders'[o].service_id = orders[o].service_id
        /\ orders'[o].total_amount = orders[o].total_amount
        /\ orders'[o].status = orders[o].status
        /\ orders'[o].otp = orders[o].otp
        /\ orders'[o].otp_expiry = orders[o].otp_expiry
        /\ ItemsOf(order_items', o) = ItemsOf(order_items, o)
        /\ \A i \in ItemsOf(order_items, o) : order_items'[i] = order_items[i]

\* C17: when a user is deleted, by the admin's delete of a team member or by
\* UserCRUD.delete itself, an order that names the user only as assigned_to stays with
\* assigned_to null and the same customer, service, total, items, status, otp and expiry.
C17_AssigneeDeletionKeepsOrder ==
    [][\A u \in DOMAIN users :
          /\ user_delete(u) => AssignmentCleared(u)
          /\ \A t \in tokens :
                (delete_team_member(t, u) /\ get_current_user(t, {ADMIN}) = 200
                   /\ users[u].role = TEAM_MEMBER)
                => (u \notin DOMAIN users' /\ AssignmentCleared(u))]_vars

\* The team member who was on the way with the order, OTP issued, has been deleted:
\* assigned_to is null only through such a deletion
C17_Witness ==
    /\ resp = [op |-> "delete_team_member", status |-> 200, detail |-> ""]
    /\ 1 \in DOMAIN orders
    /\ orders[1].assigned_to = NULL
    /\ orders[1].status = OUT_FOR_DELIVERY
    /\ orders[1].otp \in OtpValues
    /\ orders[1].otp_expiry # NULL
    /\ ItemsOf(order_items, 1) = {1}

----------------------------------------------------------------------------
(* Placing an order, one database round trip at a time.  The rows a request has   *)
(* written but not committed are kept in its slot: orders and order_items hold    *)
(* what other requests can read.                                                  *)

Ordering(pc, user_id, service_id, lines, total_amount, order_id) ==
    [op |-> "place_order", pc |-> pc, user_id |-> user_id, service_id |-> service_id,
     lines |-> lines, total_amount |-> total_amount, order_id |-> order_id]

\* place_order up to OrderCRUD.create's SELECT of the prices and its loop over the items
place_order_begin(slot, token, service_id, items) ==
    /\ reqs[slot] = Idle
    /\ LET auth == get_current_user(token, {CUSTOMER})
       IN  IF auth # 200
           THEN Respond("place_order", auth) /\ UNCHANGED reqs
           ELSE /\ reqs' = [reqs EXCEPT ![slot] =
                              Ordering("flush", token.user_id, service_id,
                                       KeptLines(items), TotalAmount(items), NULL)]
                /\ UNCHANGED resp
    /\ UNCHANGED <<db, tokens, now>>

\* db.add(db_order); await db.flush(): the INSERT runs inside the open transaction
place_order_flush(slot) ==
    /\ reqs[slot].op = "place_order"
    /\ reqs[slot].pc = "flush"
    /\ IF reqs[slot].service_id \notin services
       THEN \* orders.service_id references services.id; get_db rolls back
            /\ Respond("place_order", 500)
            /\ Finish(slot)
            /\ UNCHANGED db
       ELSE /\ next_id.orders <= MaxOrders
            /\ reqs' = [reqs EXCEPT ![slot].pc = "commit", ![slot].order_id = next_id.orders]
            /\ next_id' = Bump("orders")
            /\ UNCHANGED <<users, services, menu_items, orders, order_items, user_sessions,
                           resp>>
    /\ UNCHANGED <<tokens, now>>

\* A commit after which the order row stays although an item could not be inserted
place_order_commit_Partial(slot) ==
    /\ reqs[slot].op = "place_order"
    /\ reqs[slot].pc = "commit"
    /\ LET r == reqs[slot]
           first == next_id.order_items
           new_ids == first .. (first + Len(r.lines) - 1)
       IN  IF \E k \in 1..Len(r.lines) : r.lines[k].menu_item_id \notin DOMAIN menu_items
           THEN /\ Respond("place_order", 500)
                /\ orders' = Insert(orders, r.order_id,
                                    OrderRow(r.user_id, r.service_id, r.total_amount))
                /\ UNCHANGED <<users, services, menu_items, order_items, user_sessions,
                               next_id>>
           ELSE /\ orders' = Insert(orders, r.order_id,
                                    OrderRow(r.user_id, r.service_id, r.total_amount))
                /\ order_items' = [i \in (DOMAIN order_items) \cup new_ids |->
                                     IF i \in new_ids
                                     THEN [order_id |-> r.order_id,
                                           menu_item_id |-> r.lines[i - first + 1].menu_item_id,
                                           quantity |-> r.lines[i - first + 1].quantity,
                                           price_at_time |-> r.lines[i - first + 1].price_at_time]
                                     ELSE order_items[i]]
                /\ next_id' = [next_id EXCEPT !.order_items = @ + Len(r.lines)]
                /\ Respond("place_order", 303)
                /\ UNCHANGED <<users, services, menu_items, user_sessions>>
    /\ Finish(slot)
    /\ UNCHANGED <<tokens, now>>

\* db.add(order_item) for each line; await db.commit(): the item INSERTs and the COMMIT.
\* order_items.menu_item_id references menu_items.id: a line whose menu item was deleted
\* since the SELECT fails the INSERT, the exception leaves the handler and get_db rolls
\* the transaction back.
place_order_commit(slot) ==
    /\ reqs[slot].op = "place_order"
    /\ reqs[slot].pc = "commit"
    /\ LET r == reqs[slot]
           first == next_id.order_items
           new_ids == first .. (first + Len(r.lines) - 1)
       IN  IF \E k \in 1..Len(r.lines) : r.lines[k].menu_item_id \notin DOMAIN menu_items
           THEN /\ Respond("place_order", 500)
                /\ UNCHANGED db
           ELSE /\ orders' = Insert(orders, r.order_id,
                                    OrderRow(r.user_id, r.service_id, r.total_amount))
                /\ order_items' = [i \in (DOMAIN order_items) \cup new_ids |->
                                     IF i \in new_ids
                                     THEN [order_id |-> r.order_id,
                                           menu_item_id |-> r.lines[i - first + 1].menu_item_id,
                                           quantity |-> r.lines[i - first + 1].quantity,
                                           price_at_time |-> r.lines[i - first + 1].price_at_time]
                                     ELSE order_items[i]]
                /\ next_id' = [next_id EXCEPT !.order_items = @ + Len(r.lines)]
                /\ Respond("place_order", 303)
                /\ UNCHANGED <<users, services, menu_items, user_sessions>>
    /\ Finish(slot)
    /\ UNCHANGED <<tokens, now>>

\* The INSERT into orders holds a key-share lock on its service until the transaction
\* ends: a DELETE of that service waits for it
ServiceLocked(service_id) ==
    \E k \in Slots : /\ reqs[k].op = "place_order"
                     /\ reqs[k].pc = "commit"
                     /\ reqs[k].service_id = service_id

\* cart["items"] is a dict keyed by menu item: here both items of the shop, any quantity
TwoLineCarts ==
    {items \in Carts : Len(items) = 2 /\ items[1].menu_item_id = 1 /\ items[2].menu_item_id = 2}

NextOrdering ==
    \/ \E t \in Callers({CUSTOMER}), s \in ShopServices, items \in TwoLineCarts :
           place_order(t, s, items)
    \/ \E k \in Slots, t \in tokens, s \in ShopServices, items \in TwoLineCarts :
           place_order_begin(k, t, s, items)
    \/ \E k \in Slots : place_order_flush(k)
    \/ \E k \in Slots : place_order_commit(k)
    \/ \E t \in Callers({ADMIN}), m \in DOMAIN menu_items : delete_menu_item(t, m)
    \/ \E t \in Callers({ADMIN}), s \in services : ~ServiceLocked(s) /\ delete_service(t, s)

SpecOrdering == InitShop /\ [][NextOrdering]_vars

\* The order of the request in slot k cannot be read by anybody yet
Invisible(k) ==
    reqs'[k].op = "place_order"
    => \/ reqs'[k].order_id = NULL
       \/ /\ reqs'[k].order_id \notin DOMAIN orders'
          /\ ItemsOf(order_items', reqs'[k].order_id) = {}

\* Order o has just appeared as a pending order, nobody assigned, no OTP
StartsPending(o) ==
    /\ orders'[o].status = PENDING
    /\ orders'[o].assigned_to = NULL
    /\ orders'[o].otp = NoOtp
    /\ orders'[o].otp_expiry = NULL

\* The commit of slot k made the order and every one of its lines visible together
CommittedWhole(k) ==
    LET r == reqs[k]
        rows == ItemsOf(order_items', r.order_id)
    IN  /\ r.order_id \in DOMAIN orders'
        /\ r.order_id \notin DOMAIN orders
        /\ orders'[r.order_id].customer_id = r.user_id
        /\ orders'[r.order_id].total_amount = r.total_amount
        /\ Cardinality(rows) = Len(r.lines)
        /\ \A n \in 1..Len(r.lines) :
              \E i \in rows : /\ i \notin DOMAIN order_items
                              /\ order_items'[i].menu_item_id = r.lines[n].menu_item_id
                              /\ order_items'[i].quantity = r.lines[n].quantity
                              /\ order_items'[i].price_at_time = r.lines[n].price_at_time

\* C18: an order and its lines become readable together or not at all.  While a
\* place_order request is between its round trips its order is in neither table; a row
\* that appears in orders is pending, unassigned and without OTP; a line never appears
\* without its order appearing in the same step; the commit either shows the order
\* with all its lines or, when the INSERT of a line fails, leaves both tables as
\* they were.
C18_OrderCreationAtomic ==
    [][/\ \A k \in Slots : Invisible(k)
       /\ \A o \in (DOMAIN orders') \ (DOMAIN orders) : StartsPending(o)
       /\ \A i \in (DOMAIN order_items') \ (DOMAIN order_items) :
             order_items'[i].order_id \in (DOMAIN orders') \ (DOMAIN orders)
       /\ \A k \in Slots :
             place_order_commit(k)
             => IF \E n \in 1..Len(reqs[k].lines) :
                      reqs[k].lines[n].menu_item_id \notin DOMAIN menu_items
                THEN /\ orders' = orders
                     /\ order_items' = order_items
                     /\ resp'.status = 500
                ELSE CommittedWhole(k) /\ resp'.status = 303]_vars

\* An order was flushed (its id is taken) but the INSERT of a line failed at the
\* commit, a menu item having been deleted in between: no order row is left
C18_Witness ==
    /\ resp = [op |-> "place_order", status |-> 500, detail |-> ""]
    /\ next_id.orders = 2
    /\ orders = <<>>
    /\ order_items = <<>>
    /\ services = ShopServices
    /\ reqs = [k \in Slots |-> Idle]

\* The positions of a cart whose menu item exists
Found(items) == {n \in 1..Len(items) : items[n].menu_item_id \in DOMAIN menu_items}

\* C19: an order placed with lines whose menu item does not exist is still created
\* (answer 303, no error): its lines are exactly the requested lines whose item was
\* found, its total counts those lines only, and with no item found it has no line and
\* total_amount 0.
C19_UnknownItemsDropped ==
    [][\A t \in tokens, s \in ShopServices, items \in TwoLineCarts :
          (place_order(t, s, items) /\ get_current_user(t, {CUSTOMER}) = 200
             /\ s \in services)
          => LET o == next_id.orders
                 rows == ItemsOf(order_items', o)
                 found == Found(items)
             IN  /\ resp' = [op |-> "place_order", status |-> 303, detail |-> ""]
                 /\ o \in DOMAIN orders'
                 /\ Cardinality(rows) = Cardinality(found)
                 /\ \A i \in rows : order_items'[i].menu_item_id \in DOMAIN menu_items
                 /\ \A n \in found :
                       \E i \in rows :
                          /\ order_items'[i].menu_item_id = items[n].menu_item_id
                          /\ order_items'[i].quantity = items[n].quantity
                          /\ order_items'[i].price_at_time
                               = menu_items[items[n].menu_item_id].price
                 /\ orders'[o].total_amount
                      = SumOver(found,
                                [n \in 1..Len(items) |->
                                   IF n \in found
                                   THEN menu_items[items[n].menu_item_id].price
                                          * items[n].quantity
                                   ELSE 0])
                 /\ found = {} => (rows = {} /\ orders'[o].total_amount = 0)]_vars

\* A cart of two lines was accepted when neither menu item existed any more: the
\* order is there, pending, with no line and total 0
C19_Witness ==
    /\ resp = [op |-> "place_order", status |-> 303, detail |-> ""]
    /\ menu_items = <<>>
    /\ \E o \in DOMAIN orders :
          /\ o = next_id.orders - 1
          /\ orders[o].status = PENDING
          /\ orders[o].total_amount = 0
          /\ ItemsOf(order_items, o) = {}

\* C20: assign_order called by an admin on an existing order, with the id of an
\* existing user, writes assigned_to and status 'assigned' in one step and nothing else:
\* every other field of the order, its lines and all other orders are as before.  Called
\* by anybody else it is answered 401 or 403 and orders and order_items are unchanged.
C20_AssignWritesTwoFields ==
    [][\A t \in tokens, o \in DOMAIN orders, u \in DOMAIN users :
          assign_order(t, o, u)
          => IF t.role = ADMIN /\ t.user_id \in DOMAIN users
             THEN /\ resp'.status = 200
                  /\ DOMAIN orders' = DOMAIN orders
                  /\ orders'[o] = [orders[o] EXCEPT !.assigned_to = u, !.status = ASSIGNED]
                  /\ \A p \in (DOMAIN orders) \ {o} : orders'[p] = orders[p]
                  /\ order_items' = order_items
             ELSE /\ resp'.status \in {401, 403}
                  /\ t.user_id \in DOMAIN users => resp'.status = 403
                  /\ orders' = orders
                  /\ order_items' = order_items]_vars

\* A delivered order was assigned again: status is back to 'assigned' under the new
\* assignee while the OTP, its expiry and the confirmation time are still there
C20_Witness ==
    /\ resp = [op |-> "assign_order", status |-> 200, detail |-> ""]
    /\ 1 \in DOMAIN orders
    /\ orders[1].status = ASSIGNED
    /\ orders[1].assigned_to = 3
    /\ orders[1].otp \in OtpValues
    /\ orders[1].delivery_confirmed_at # NULL
    /\ orders[1].total_amount = 2

----------------------------------------------------------------------------
(* The life of an order: the delivery database, in which an assigned order is put *)
(* on its way by an update of its status alone (no router does it), the admin     *)
(* assigns and reassigns it between the two team members and deletes them, and    *)
(* the team members request and verify OTPs.                                      *)

\* The order leaves "assigned" for "out_for_delivery"
start_delivery(order_id) ==
    /\ order_id \in DOMAIN orders
    /\ orders[order_id].status = ASSIGNED
    /\ set_status(order_id, OUT_FOR_DELIVERY)

NextLifecycle ==
    \/ \E t \in Callers({ADMIN}), o \in DOMAIN orders, u \in DOMAIN users :
           users[u].role = TEAM_MEMBER /\ assign_order(t, o, u)
    \/ \E o \in DOMAIN orders : start_delivery(o)
    \/ \E s \in Slots, t \in Callers({TEAM_MEMBER}), o \in DOMAIN orders :
           request_otp_begin(s, t, o)
    \/ \E s \in Slots, otp \in OtpValues : request_otp_generate(s, otp)
    \/ \E s \in Slots : request_otp_notify(s, "sent")
    \/ \E s \in Slots, t \in Callers({TEAM_MEMBER}), o \in DOMAIN orders, otp \in OtpValues :
           verify_otp_begin(s, t, o, otp)
    \/ \E s \in Slots : verify_otp_check(s)
    \/ \E s \in Slots : verify_otp_update(s)
    \/ \E t \in Callers({ADMIN}), u \in DOMAIN users : delete_team_member(t, u)
    \/ Tick

SpecLifecycle == InitDelivery /\ [][NextLifecycle]_vars

\* The transitions of the order state machine
Transitions ==
    {<<PENDING, ASSIGNED>>, <<ASSIGNED, OUT_FOR_DELIVERY>>, <<OUT_FOR_DELIVERY, DELIVERED>>,
     <<PENDING, CANCELLED>>, <<ASSIGNED, CANCELLED>>}

\* C21: every change of the status of an order is one of the transitions of the state
\* machine; in particular an order never leaves delivered or cancelled.
C21_OnlyListedTransitions ==
    [][\A o \in (DOMAIN orders) \cap (DOMAIN orders') :
          orders'[o].status # orders[o].status
          => <<orders[o].status, orders'[o].status>> \in Transitions]_vars

\* An order that counts as in somebody's hands while nobody is named
ActiveUnassigned(row) ==
    row.status \in {ASSIGNED, OUT_FOR_DELIVERY} /\ row.assigned_to = NULL

\* C28 as stated: an order whose status is assigned or out_for_delivery has a non-null
\* assigned_to.
C28_ActiveOrderHasAssignee ==
    \A o \in DOMAIN orders : ~ActiveUnassigned(orders[o])

\* C28: an order whose status is assigned or out_for_delivery has a non-null
\* assigned_to unless its assignee was deleted: it gets into that condition only in the
\* step that deletes the user it was assigned to, and no assignment, OTP request or
\* verification produces it.
C28_UnassignedOnlyByDeletion ==
    [][\A o \in (DOMAIN orders) \cap (DOMAIN orders') :
          ActiveUnassigned(orders'[o])
          => \/ ActiveUnassigned(orders[o])
             \/ /\ orders[o].assigned_to \in DOMAIN users
                /\ orders[o].assigned_to \notin DOMAIN users'
                /\ orders'[o].status = orders[o].status]_vars

\* The team member on the way with the order was deleted: out for delivery, nobody named
C28_Witness ==
    /\ resp = [op |-> "delete_team_member", status |-> 200, detail |-> ""]
    /\ \E o \in DOMAIN orders :
          /\ orders[o].status = OUT_FOR_DELIVERY
          /\ orders[o].assigned_to = NULL
    /\ Cardinality({u \in DOMAIN users : users[u].role = TEAM_MEMBER}) = 1

\* C29: a delivered order has a delivery_confirmed_at and a stored OTP, and status
\* becomes delivered only by the confirming write of a verify-otp request, which was
\* started by the team member the order was assigned to and has passed the OTP test.
C29_DeliveredOnlyByVerification ==
    [][\A o \in DOMAIN orders' :
          orders'[o].status = DELIVERED
          => /\ orders'[o].delivery_confirmed_at # NULL
             /\ orders'[o].otp # NoOtp
             /\ (o \in DOMAIN orders /\ orders[o].status # DELIVERED)
                => \E s \in Slots : /\ Confirming(s)
                                    /\ reqs[s].order_id = o
                                    /\ orders'[o].delivery_confirmed_at = now]_vars

\* The assigned team member confirmed the delivery with the OTP sent to the customer
C29_Witness ==
    /\ resp = Delivered
    /\ orders[1].status = DELIVERED
    /\ orders[1].delivery_confirmed_at = now
    /\ orders[1].otp \in OtpValues
    /\ orders[1].assigned_to \in {2, 3}
    /\ now <= orders[1].otp_expiry

\* C25: the confirming write of verify-otp does not look at the assignment again: a
\* request that has passed its tests writes delivered and the confirmation time even
\* when the order has been assigned to somebody else in between, and leaves the new
\* assignee in place.
C25_VerifyRacesWithAssign ==
    [][\A s \in Slots :
          (Confirming(s) /\ reqs[s].order_id \in DOMAIN orders)
          => LET o == reqs[s].order_id
             IN  /\ orders'[o].status = DELIVERED
                 /\ orders'[o].delivery_confirmed_at = now
                 /\ orders'[o].assigned_to = orders[o].assigned_to]_vars

\* dev's verify-otp has passed the assignment and OTP tests; the admin has since given
\* the order, never delivered so far, to mina; dev's write is the next step of the request
C25_Witness ==
    /\ \E s \in Slots : /\ reqs[s].op = "verify_otp"
                        /\ reqs[s].pc = "update"
                        /\ reqs[s].user_id = 2
                        /\ reqs[s].order_id = 1
    /\ orders[1].assigned_to = 3
    /\ orders[1].status = ASSIGNED
    /\ orders[1].delivery_confirmed_at = NULL
    /\ resp = [op |-> "assign_order", status |-> 200, detail |-> ""]

----------------------------------------------------------------------------
(* Accounts: schemas/user.py UserUpdate and crud/crud_user.py UserCRUD.update,    *)
(* next to the sign-in endpoints and ordering.                                    *)

\* An update schema that lets the role through
UserUpdate_WithRole(data) ==
    [f \in (DOMAIN data) \cap {"email", "phone", "password", "role"} |-> data[f]]

\* UserUpdate(**data).dict(exclude_unset=True): the fields of the schema that were
\* given (name and address are not part of the model); any other key is ignored
UserUpdate(data) ==
    [f \in (DOMAIN data) \cap {"email", "phone", "password"} |-> data[f]]

\* UserCRUD.update: the password is stored hashed, then
\* UPDATE users SET **update_data WHERE id = :user_id (no row: nothing is written)
UserCRUD_update(user_id, user_data) ==
    LET hashed == IF "password" \in DOMAIN user_data
                  THEN [f \in ((DOMAIN user_data) \ {"password"}) \cup {"hashed_password"} |->
                          IF f = "hashed_password"
                          THEN get_password_hash(user_data["password"])
                          ELSE user_data[f]]
                  ELSE user_data
        taken == \E v \in (DOMAIN users) \ {user_id} :
                    \/ "email" \in DOMAIN hashed /\ users[v].email = hashed["email"]
                    \/ "phone" \in DOMAIN hashed /\ users[v].phone = hashed["phone"]
    IN  /\ users' = IF taken /\ user_id \in DOMAIN users
                    THEN users   \* the unique index rejects the UPDATE
                    ELSE [u \in DOMAIN users |->
                            IF u = user_id THEN Merged(users[u], hashed) ELSE users[u]]
        /\ UNCHANGED <<services, menu_items, orders, order_items, user_sessions, next_id>>

\* UserCRUD.update called with what a client sent
user_update(user_id, data) ==
    /\ UserCRUD_update(user_id, UserUpdate(data))
    /\ UNCHANGED <<tokens, now, reqs, resp>>

\* Request bodies: a new e-mail with a role smuggled in, a new password, a role alone
RawUpdates ==
    {[email |-> "new@example.com", role |-> ADMIN],
     [password |-> "secret9"],
     [role |-> TEAM_MEMBER]}

NextAccount ==
    \/ \E f \in Forms : register(f.username, f.email, f.phone, f.password, f.password)
    \/ \E u \in LoginNames, p \in LoginPasswords, r \in UserRole : login(u, p, r)
    \/ admin_login(ADMIN_USERNAME, ADMIN_PASSWORD)
    \/ \E t \in tokens, f \in Forms :
           create_team_member(t, f.username, f.email, f.phone, f.password)
    \/ \E k \in 1..MaxSessions : logout(k)
    \/ \E u \in 1..MaxUsers, data \in RawUpdates : user_update(u, data)

SpecAccount == Init /\ [][NextAccount]_vars

\* C23: the role of a user is the one the user was created with: no step changes the
\* role of an existing user, whatever the body of an update contains.
C23_RoleNeverChanges ==
    [][\A u \in (DOMAIN users) \cap (DOMAIN users') : users'[u].role = users[u].role]_vars

\* An update that carried role admin next to a new e-mail was applied to a customer:
\* the e-mail is the new one and the role is still customer
C23_Witness ==
    \E u \in DOMAIN users :
        /\ users[u].email = "new@example.com"
        /\ users[u].role = CUSTOMER

----------------------------------------------------------------------------
(* Presence: people log in and out, time passes beyond the life of a token, and   *)
(* customers are deleted, while the tokens issued so far are presented again.     *)

NextPresence ==
    \/ \E f \in Forms : register(f.username, f.email, f.phone, f.password, f.password)
    \/ admin_login(ADMIN_USERNAME, ADMIN_PASSWORD)
    \/ \E k \in 1..MaxSessions : logout(k)
    \/ \E t \in tokens : create_service(t)
    \/ \E t \in tokens, f \in Forms :
           create_team_member(t, f.username, f.email, f.phone, f.password)
    \/ \E u \in DOMAIN users : users[u].role = CUSTOMER /\ user_delete(u)
    \/ Sleep

SpecPresence == Init /\ [][NextPresence]_vars

\* What the resolution of an issued token depends on: its expiry and its user
Authenticates(t) == IF t.exp < now \/ t.user_id \notin DOMAIN users THEN 401 ELSE 200

\* C24: an issued token authenticates until it expires or its user is deleted, whatever
\* the state of the session records, and a logout, which stamps a session record,
\* changes the resolution of no token for any allow-list.
C24_SessionsDoNotAuthenticate ==
    [][/\ \A t \in tokens' : get_current_user(t, {})' = Authenticates(t)'
       /\ \A k \in 1..MaxSessions :
             logout(k)
             => \A t \in tokens, allowed_roles \in SUBSET UserRole :
                   get_current_user(t, allowed_roles)' = get_current_user(t, allowed_roles)]_vars

\* The admin logged out, every session of theirs is closed, and the token issued at
\* login was still accepted for creating a service
C24_Witness ==
    /\ resp = [op |-> "create_service", status |-> 200, detail |-> ""]
    /\ \E k \in DOMAIN user_sessions : user_sessions[k].user_id = 1
    /\ \A k \in DOMAIN user_sessions :
          user_sessions[k].user_id = 1 => user_sessions[k].logout_time # NULL
    /\ \E t \in tokens : t.user_id = 1 /\ t.exp >= now

----------------------------------------------------------------------------
(* Foreign keys: the shop, in which orders are placed, assigned and deleted and   *)
(* users, services and menu items are deleted, in any order.                      *)

\* OrderCRUD.delete: DELETE FROM orders WHERE id = :order_id
OrderCRUD_delete(order_id) ==
    /\ orders' = Without(orders, {order_id})
    /\ order_items' = Without(order_items, ItemsCascade({}, {order_id}))
    /\ UNCHANGED <<users, services, menu_items, user_sessions, next_id>>

order_delete(order_id) ==
    /\ order_id \in DOMAIN orders
    /\ OrderCRUD_delete(order_id)
    /\ UNCHANGED <<tokens, now, reqs, resp>>

\* The ids an admin can address: also those of rows that are gone or never were
ShopUserIds == 1..4

NextIntegrity ==
    \/ \E t \in Callers({CUSTOMER}), s \in ShopServices, items \in ShopCarts :
           place_order(t, s, items)
    \/ \E t \in Callers({ADMIN}), o \in OrderIds, u \in ShopUserIds : assign_order(t, o, u)
    \/ \E t \in Callers({ADMIN}), m \in ItemIds : delete_menu_item(t, m)
    \/ \E t \in Callers({ADMIN}), s \in ShopServices : delete_service(t, s)
    \/ \E t \in Callers({ADMIN}), u \in ShopUserIds : delete_team_member(t, u)
    \/ \E u \in DOMAIN users : users[u].role = CUSTOMER /\ user_delete(u)
    \/ \E o \in DOMAIN orders : order_delete(o)

SpecIntegrity == InitShop /\ [][NextIntegrity]_vars

\* C26: every order item names an existing order and an existing menu item, every menu
\* item an existing service, every order an existing customer and an existing service
\* and, as assignee, nobody or an existing user.
C26_ReferencesResolve ==
    /\ \A i \in DOMAIN order_items :
          /\ order_items[i].order_id \in DOMAIN orders
          /\ order_items[i].menu_item_id \in DOMAIN menu_items
    /\ \A m \in DOMAIN menu_items : menu_items[m].service_id \in services
    /\ \A o \in DOMAIN orders :
          /\ orders[o].customer_id \in DOMAIN users
          /\ orders[o].service_id \in services
          /\ orders[o].assigned_to = NULL \/ orders[o].assigned_to \in DOMAIN users

\* A menu item was deleted under an order that had it as its only line, while the order
\* of the other service kept its line and its assignee
C26_Witness ==
    /\ resp = [op |-> "delete_menu_item", status |-> 200, detail |-> ""]
    /\ DOMAIN orders = {1, 2}
    /\ \E o \in DOMAIN orders, p \in DOMAIN orders :
          /\ ItemsOf(order_items, o) = {}
          /\ orders[o].total_amount > 0
          /\ ItemsOf(order_items, p) # {}
          /\ orders[p].assigned_to = 2

\* C27: an admin operation addressed to an id that no row has is answered 404 and
\* changes nothing: assign_order for a missing order, delete_service, delete_menu_item
\* and delete_team_member for a missing service, menu item and user.
C27_MissingEntityIsNotFound ==
    [][\A t \in Callers({ADMIN}) :
          /\ \A o \in OrderIds, u \in ShopUserIds :
                (assign_order(t, o, u) /\ o \notin DOMAIN orders)
                => /\ resp' = [op |-> "assign_order", status |-> 404, detail |-> ""]
                   /\ orders' = orders
          /\ \A s \in ShopServices :
                (delete_service(t, s) /\ s \notin services)
                => /\ resp' = [op |-> "delete_service", status |-> 404, detail |-> ""]
                   /\ UNCHANGED db
          /\ \A m \in ItemIds :
                (delete_menu_item(t, m) /\ m \notin DOMAIN menu_items)
                => /\ resp' = [op |-> "delete_menu_item", status |-> 404, detail |-> ""]
                   /\ UNCHANGED db
          /\ \A u \in ShopUserIds :
                (delete_team_member(t, u) /\ u \notin DOMAIN users)
                => /\ resp' = [op |-> "delete_team_member", status |-> 404, detail |-> ""]
                   /\ UNCHANGED db]_vars

----------------------------------------------------------------------------
(* Who can create which account *)

\* The credential was issued by the application to a user that is an admin
IssuedToAdmin(c) ==
    /\ c \in tokens
    /\ c.role = ADMIN
    /\ c.user_id \in DOMAIN users
    /\ users[c.user_id].role = ADMIN

\* C30: whatever credentials the callers present, a step adds no admin, adds a team
\* member only as create_team_member called with a token issued to an admin, and
\* every other new user is a customer; the role of an existing user stays.
C30_PrivilegedAccountsOnlyByAdmin ==
    [][/\ \A u \in DOMAIN users' \ DOMAIN users :
             \/ users'[u].role = CUSTOMER
             \/ /\ users'[u].role = TEAM_MEMBER
                /\ \E c \in Credentials, f \in Forms :
                       /\ IssuedToAdmin(c)
                       /\ create_team_member(c, f.username, f.email, f.phone, f.password)
       /\ \A u \in DOMAIN users \cap DOMAIN users' : users'[u].role = users[u].role]_vars

\* A customer's token was refused by create_team_member and no team member exists
C30_Witness ==
    /\ resp.op = "create_team_member"
    /\ resp.status = 403
    /\ \E u \in DOMAIN users : users[u].role = CUSTOMER
    /\ ~\E u \in DOMAIN users : users[u].role = TEAM_MEMBER

----------------------------------------------------------------------------
(* The order workflow as the endpoints alone drive it *)

\* Every endpoint that reads or writes the status of an order: place-order, assign,
\* request-otp and verify-otp.  No router calls OrderCRUD.update with out_for_delivery
\* or cancelled, so request-otp stops at its status test and verify-otp at the stored OTP
NextWorkflow ==
    \/ \E t \in Callers({CUSTOMER}), s \in ShopServices, items \in ShopCarts :
           place_order(t, s, items)
    \/ \E t \in Callers({ADMIN}), o \in DOMAIN orders, u \in DOMAIN users :
           users[u].role = TEAM_MEMBER /\ assign_order(t, o, u)
    \/ \E s \in Slots, t \in Callers({TEAM_MEMBER}), o \in DOMAIN orders :
           request_otp_begin(s, t, o)
    \/ \E s \in Slots, t \in Callers({TEAM_MEMBER}), o \in DOMAIN orders, otp \in OtpValues :
           verify_otp_begin(s, t, o, otp)
    \/ \E s \in Slots : verify_otp_check(s)

\* The admin assigns what is placed and the team member keeps asking for and entering
\* the OTP; the server answers every request it gets
FairWorkflow ==
    /\ WF_vars(\E t \in Callers({ADMIN}), o \in DOMAIN orders, u \in DOMAIN users :
                   users[u].role = TEAM_MEMBER /\ assign_order(t, o, u))
    /\ WF_vars(\E s \in Slots, t \in Callers({TEAM_MEMBER}), o \in DOMAIN orders :
                   request_otp_begin(s, t, o))
    /\ WF_vars(\E s \in Slots : verify_otp_check(s))

SpecWorkflow == InitShop /\ [][NextWorkflow]_vars /\ FairWorkflow

\* What the endpoints make of an order: it is pending or assigned, no OTP is stored
\* and no request gets past the guards of request-otp and verify-otp
StatusesThroughEndpoints ==
    /\ \A o \in DOMAIN orders : /\ orders[o].status \in {PENDING, ASSIGNED}
                                /\ orders[o].otp = NoOtp
    /\ \A s \in Slots : reqs[s].pc \notin {"generate", "notify", "update"}

\* C22: a placed order gets out of pending and assigned: with the admin assigning and
\* the team member requesting and entering the OTP it is eventually out for delivery,
\* delivered or cancelled.
C22_PlacedOrderMovesOn ==
    \A o \in OrderIds :
        (o \in DOMAIN orders /\ orders[o].status = PENDING)
        ~> (o \in DOMAIN orders
            /\ orders[o].status \in {OUT_FOR_DELIVERY, DELIVERED, CANCELLED})

====
